---- MODULE Spec2Model ----
(***************************************************************************)
(* A model of the convnet package: layer definitions and their desugaring, *)
(* network construction (MakeLayers), the forward and backward passes and  *)
(* the Trainer.  float64 values are modelled as exact rationals <<n, d>>.  *)
(* Go slices and arrays are 0-based, TLA+ sequences 1-based: element i of  *)
(* the source is element i + 1 of the model.                               *)
(***************************************************************************)
EXTENDS Integers, Sequences, FiniteSets, TLC

VARIABLES
    defs,      \* the []LayerDef handed to MakeLayers
    made,      \* "new" | "built" | "panic": how MakeLayers ended
    panicMsg,  \* the message of the last panic, "" when none
    desugared, \* what desugar returned inside MakeLayers
    Layers,    \* Net.Layers
    rng,       \* position of the *rand.Rand stream
    vols,      \* the activation Vols alive since the last Forward; vols[1] is x
    opts,      \* Trainer.TrainerOptions
    k,         \* Trainer.k
    gsum,      \* Trainer.gsum
    xsum,      \* Trainer.xsum
    calls,     \* number of Train calls made so far
    updates,   \* number of Train calls that ran the update loop to its end
    ops,       \* number of Net.Forward and Net.Backward calls made from outside Train
    rawsum,    \* raw gradients added to the parameter buffers since the last update
    last,      \* what the last operation did: its name, outcome, result and calls
    window,    \* a cnnutil.Window: v, index, size, minsize
    added      \* the values added to the Window since its last Reset, oldest first

vars == <<defs, made, panicMsg, desugared, Layers, rng, vols, opts, k, gsum,
          xsum, calls, updates, ops, rawsum, last, window, added>>

----------------------------------------------------------------------------
(* float64 as rationals *)

\* a slice made in one go: the function f with domain 1..n as a tuple of its values
Tuple(f) == f \o <<>>

AbsInt(n) == IF n < 0 THEN -n ELSE n

RECURSIVE Gcd(_, _)
Gcd(a, b) == IF b = 0 THEN a ELSE Gcd(b, a % b)

\* a float64 keeps a bounded number of digits: a value whose reduced denominator
\* exceeds Precision is rounded down to a multiple of 1/Precision
Precision == 64

\* n/d divided through by g = gcd(|n|, |d|), the sign carried by the numerator
Lowest(n, d, g) ==
    IF g = 0 THEN <<0, 1>>
    ELSE IF d < 0 THEN <<(-n) \div g, (-d) \div g>> ELSE <<n \div g, d \div g>>

Reduce(n, d) == Lowest(n, d, Gcd(AbsInt(n), AbsInt(d)))

Round(q) ==
    IF q[2] <= Precision THEN q
    ELSE Reduce((q[1] \div q[2]) * Precision + ((q[1] % q[2]) * Precision) \div q[2],
                Precision)

\* a whole number is in lowest terms as it stands
Rat(n, d) == IF d = 1 THEN <<n, 1>> ELSE Round(Reduce(n, d))

Zero == <<0, 1>>
One == <<1, 1>>
Int2F(n) == <<n, 1>>
FAdd(a, b) == Rat(a[1] * b[2] + b[1] * a[2], a[2] * b[2])
FSub(a, b) == Rat(a[1] * b[2] - b[1] * a[2], a[2] * b[2])
FMul(a, b) == Rat(a[1] * b[1], a[2] * b[2])
FDiv(a, b) == Rat(a[1] * b[2], a[2] * b[1])
FNeg(a) == <<-a[1], a[2]>>
FLt(a, b) == a[1] * b[2] < b[1] * a[2]
FAbs(a) == <<AbsInt(a[1]), a[2]>>

\* math.Copysign(1, p): +1 for p >= 0 (a rational has no negative zero), -1 below
Copysign1(p) == IF p[1] < 0 THEN <<-1, 1>> ELSE One

\* the largest r in lo..hi with r * r <= m, by bisection
RECURSIVE IsqrtFrom(_, _, _)
IsqrtFrom(m, lo, hi) ==
    IF lo >= hi THEN lo
    ELSE LET mid == (lo + hi + 1) \div 2
         IN  IF mid * mid > m THEN IsqrtFrom(m, lo, mid - 1) ELSE IsqrtFrom(m, mid, hi)

\* math.Sqrt, rounded down to a multiple of 1/4
Sqrt(a) ==
    IF a[1] <= 0 THEN Zero
    ELSE LET m == (16 * a[1]) \div a[2] IN Rat(IsqrtFrom(m, 0, m), 4)

RECURSIVE PowInt(_, _)
PowInt(a, n) == IF n <= 0 THEN One ELSE FMul(a, PowInt(a, n - 1))

\* Go's integer division truncates toward zero
GoDiv(a, b) ==
    IF (a >= 0) = (b > 0) THEN AbsInt(a) \div AbsInt(b) ELSE -(AbsInt(a) \div AbsInt(b))

RECURSIVE SeqSum(_)
SeqSum(s) == IF s = <<>> THEN Zero ELSE FAdd(Head(s), SeqSum(Tail(s)))

----------------------------------------------------------------------------
(* LayerType *)

LayerInput == 1
LayerRelu == 2
LayerSigmoid == 3
LayerTanh == 4
LayerDropout == 5
LayerConv == 6
LayerPool == 7
LayerLRN == 8
LayerSoftmax == 9
LayerRegression == 10
LayerFC == 11
LayerMaxout == 12
LayerSVM == 13

LossTypes == {LayerSoftmax, LayerRegression, LayerSVM}

\* the zero value of LayerDef
LayerDef ==
    [Type |-> 0, NumNeurons |-> 0, NumClasses |-> 0, BiasPref |-> Zero,
     BiasPrefZero |-> FALSE, Activation |-> 0, GroupSize |-> 0,
     GroupSizeZero |-> FALSE, DropProb |-> Zero, DropProbZero |-> FALSE,
     InSx |-> 0, InSy |-> 0, InDepth |-> 0, OutSx |-> 0, OutSy |-> 0,
     OutDepth |-> 0, L1DecayMul |-> Zero, L1DecayMulZero |-> FALSE,
     L2DecayMul |-> Zero, L2DecayMulZero |-> FALSE, Sx |-> 0, SxZero |-> FALSE,
     Sy |-> 0, SyZero |-> FALSE, Pad |-> 0, PadZero |-> FALSE, Stride |-> 0,
     StrideZero |-> FALSE, Filters |-> 0, K |-> Zero, N |-> 0, Alpha |-> Zero,
     Beta |-> Zero]

----------------------------------------------------------------------------
(* desugar *)

\* if def.DropProb != 0 && def.Type != LayerDropout
needsDropout_Always(def) == def.DropProb # Zero

needsDropout(def) == def.DropProb # Zero /\ def.Type # LayerDropout

\* the definitions desugar appends for one definition; panic = unsupported activation
desugarOne(def0) ==
    LET pre == IF def0.Type = LayerSoftmax \/ def0.Type = LayerSVM
               THEN <<[LayerDef EXCEPT !.Type = LayerFC, !.NumNeurons = def0.NumClasses]>>
               ELSE IF def0.Type = LayerRegression
               THEN <<[LayerDef EXCEPT !.Type = LayerFC, !.NumNeurons = def0.NumNeurons]>>
               ELSE <<>>
        def == IF (def0.Type = LayerFC \/ def0.Type = LayerConv)
                  /\ def0.BiasPref = Zero /\ ~def0.BiasPrefZero
               THEN [def0 EXCEPT !.BiasPrefZero = TRUE,
                                 !.BiasPref = IF def0.Activation = LayerRelu
                                              THEN <<1, 10>> ELSE Zero]
               ELSE def0
        gs == IF def.GroupSize = 0 /\ ~def.GroupSizeZero THEN 2 ELSE def.GroupSize
        act == CASE def.Activation = 0 -> <<>>
                 [] def.Activation = LayerRelu -> <<[LayerDef EXCEPT !.Type = LayerRelu]>>
                 [] def.Activation = LayerSigmoid -> <<[LayerDef EXCEPT !.Type = LayerSigmoid]>>
                 [] def.Activation = LayerTanh -> <<[LayerDef EXCEPT !.Type = LayerTanh]>>
                 [] def.Activation = LayerMaxout ->
                        <<[LayerDef EXCEPT !.Type = LayerMaxout, !.GroupSize = gs,
                                           !.GroupSizeZero = TRUE]>>
                 [] OTHER -> <<>>
        drop == IF needsDropout(def)
                THEN <<[LayerDef EXCEPT !.Type = LayerDropout, !.DropProb = def.DropProb]>>
                ELSE <<>>
        bad == def.Activation \notin {0, LayerRelu, LayerSigmoid, LayerTanh, LayerMaxout}
    IN  [panic |-> bad,
         out |-> IF bad THEN pre \o <<def>> ELSE pre \o <<def>> \o act \o drop]

\* the loop "for _, def := range defs" from definition i on; desugarNext goes on
\* after the definitions one has appended for definition i
RECURSIVE desugarFrom(_, _, _)
desugarNext(ds, i, newDefs, one) ==
    IF one.panic THEN [panic |-> TRUE, out |-> newDefs \o one.out]
    ELSE desugarFrom(ds, i + 1, newDefs \o one.out)

desugarFrom(ds, i, newDefs) ==
    IF i > Len(ds) THEN [panic |-> FALSE, out |-> newDefs]
    ELSE desugarNext(ds, i, newDefs, desugarOne(ds[i]))

desugar(ds) == desugarFrom(ds, 1, <<>>)

----------------------------------------------------------------------------
(* Vol *)

\* a nil *Vol
NilVol == [Sx |-> 0, Sy |-> 0, Depth |-> 0, W |-> <<>>, Dw |-> <<>>]

NewVol(sx, sy, depth, c) ==
    [Sx |-> sx, Sy |-> sy, Depth |-> depth,
     W |-> Tuple([i \in 1..(sx * sy * depth) |-> c]),
     Dw |-> Tuple([i \in 1..(sx * sy * depth) |-> Zero])]

NewVol1D(w) ==
    [Sx |-> 1, Sy |-> 1, Depth |-> Len(w), W |-> w, Dw |-> Tuple([i \in 1..Len(w) |-> Zero])]

\* the *rand.Rand stream: a fixed cycle of draws, rng is the position in it
NormDraws == <<1, -1, 2, 0, -2>>
UniformDraws == <<<<1, 4>>, <<3, 4>>, <<1, 2>>, <<0, 1>>, <<9, 10>>>>
RandPeriod == Len(NormDraws)
NormFloat64(r) == Int2F(NormDraws[(r % RandPeriod) + 1])
Float64(r) == UniformDraws[(r % RandPeriod) + 1]

\* returns the Vol; it takes sx*sy*depth draws from r
NewVolRand(sx, sy, depth, r) ==
    LET scale == Sqrt(Rat(1, sx * sy * depth))
    IN  [Sx |-> sx, Sy |-> sy, Depth |-> depth,
         W |-> Tuple([i \in 1..(sx * sy * depth) |-> FMul(NormFloat64(r + i - 1), scale)]),
         Dw |-> Tuple([i \in 1..(sx * sy * depth) |-> Zero])]

\* (v *Vol) index, 0-based as in the source
index(v, x, y, d) == ((v.Sx * y) + x) * v.Depth + d

----------------------------------------------------------------------------
(* layers: construction *)

\* a nil Layer; every layer struct is a record over the same fields, the ones its
\* Go struct lacks stay at their zero value.  def is the LayerDef fromDef was given;
\* rand says whether the layer's *rand.Rand is set (non-nil).
NilLayer ==
    [type |-> 0, def |-> LayerDef, outSx |-> 0, outSy |-> 0, outDepth |-> 0,
     inSx |-> 0, inSy |-> 0, inDepth |-> 0, numInputs |-> 0,
     l1DecayMul |-> Zero, l2DecayMul |-> Zero, filters |-> <<>>, biases |-> NilVol,
     groupSize |-> 0, switches |-> <<>>, sx |-> 0, sy |-> 0, stride |-> 0, pad |-> 0,
     switchx |-> <<>>, switchy |-> <<>>, k |-> Zero, n |-> 0, alpha |-> Zero,
     beta |-> Zero, dropProb |-> Zero, dropped |-> <<>>, rand |-> FALSE, inAct |-> 0,
     outAct |-> 0, es |-> <<>>, s |-> NilVol]

\* result of a fromDef call
Built(l, r) == [panic |-> FALSE, msg |-> "", layer |-> l, rng |-> r]
Failed(l, r, m) == [panic |-> TRUE, msg |-> m, layer |-> l, rng |-> r]

InputLayer_fromDef(l, def, r) ==
    Built([l EXCEPT !.outDepth = def.OutDepth,
                    !.outSx = IF def.OutSx = 0 THEN 1 ELSE def.OutSx,
                    !.outSy = IF def.OutSy = 0 THEN 1 ELSE def.OutSy], r)

FullyConnLayer_fromDef(l, def, r) ==
    LET numInputs == def.InSx * def.InSy * def.InDepth
        l2 == IF def.L2DecayMul = Zero /\ ~def.L2DecayMulZero THEN One ELSE def.L2DecayMul
    IN  Built([l EXCEPT !.outDepth = def.NumNeurons,
                        !.l1DecayMul = def.L1DecayMul,
                        !.l2DecayMul = l2,
                        !.numInputs = numInputs,
                        !.filters = Tuple([i \in 1..def.NumNeurons |->
                                        NewVolRand(1, 1, numInputs, r + (i - 1) * numInputs)]),
                        !.biases = NewVol(1, 1, def.NumNeurons, def.BiasPref)],
              (r + def.NumNeurons * numInputs) % RandPeriod)

LocalResponseNormalizationLayer_fromDef(l, def, r) ==
    LET l2 == [l EXCEPT !.k = def.K, !.n = def.N, !.alpha = def.Alpha, !.beta = def.Beta,
                        !.outSx = def.InSx, !.outSy = def.InSy, !.outDepth = def.InDepth]
    IN  IF def.N % 2 = 0 THEN Failed(l2, r, "convnet: n should be odd for LRN layer")
        ELSE Built(l2, r)

DropoutLayer_fromDef(l, def, r) ==
    Built([l EXCEPT !.outSx = def.InSx, !.outSy = def.InSy, !.outDepth = def.InDepth,
                    !.dropProb = IF def.DropProb = Zero /\ ~def.DropProbZero
                                 THEN <<1, 2>> ELSE def.DropProb,
                    !.dropped = Tuple([i \in 1..(def.InSx * def.InSy * def.InDepth) |-> FALSE]),
                    !.rand = TRUE], r)

SoftmaxLayer_fromDef(l, def, r) ==
    Built([l EXCEPT !.outDepth = def.InSx * def.InSy * def.InDepth], r)

\* RegressionLayer.fromDef and SVMLayer.fromDef
LossLayer_fromDef(l, def, r) ==
    Built([l EXCEPT !.numInputs = def.InSx * def.InSy * def.InDepth], r)

PoolLayer_fromDef(l, def, r) ==
    LET sy == IF def.Sy = 0 /\ ~def.SyZero THEN def.Sx ELSE def.Sy
        stride == IF def.Stride = 0 /\ ~def.StrideZero THEN 2 ELSE def.Stride
        l2 == [l EXCEPT !.sx = def.Sx, !.inDepth = def.InDepth, !.inSx = def.InSx,
                        !.inSy = def.InSy, !.sy = sy, !.stride = stride, !.pad = def.Pad]
        outSx == GoDiv(def.InSx + def.Pad * 2 - def.Sx, stride) + 1
        outSy == GoDiv(def.InSy + def.Pad * 2 - sy, stride) + 1
    IN  IF stride = 0 THEN Failed(l2, r, "runtime error: integer divide by zero")
        ELSE IF outSx * outSy * def.InDepth < 0
        THEN Failed([l2 EXCEPT !.outSx = outSx, !.outSy = outSy], r,
                    "runtime error: makeslice: len out of range")
        ELSE Built([l2 EXCEPT !.outSx = outSx, !.outSy = outSy,
                              !.switchx = Tuple([i \in 1..(outSx * outSy * def.InDepth) |-> 0]),
                              !.switchy = Tuple([i \in 1..(outSx * outSy * def.InDepth) |-> 0])], r)

\* ReluLayer.fromDef, SigmoidLayer.fromDef and TanhLayer.fromDef
Nonlinearity_fromDef(l, def, r) ==
    Built([l EXCEPT !.outSx = def.InSx, !.outSy = def.InSy, !.outDepth = def.InDepth], r)

MaxoutLayer_fromDef(l, def, r) ==
    LET gs == IF def.GroupSize = 0 /\ ~def.GroupSizeZero THEN 2 ELSE def.GroupSize
        l2 == [l EXCEPT !.groupSize = gs, !.outSx = def.InSx, !.outSy = def.InSy]
    IN  IF gs = 0 THEN Failed(l2, r, "runtime error: integer divide by zero")
        ELSE LET od == GoDiv(def.InDepth, gs)
             IN  Built([l2 EXCEPT !.outDepth = od,
                                  !.switches = Tuple([i \in 1..(def.InSx * def.InSy * od) |-> 0])], r)

\* ConvLayer is named by MakeLayers but the package does not define it yet; its shape
\* is the documented one, out = floor((in + 2*pad - filter)/stride) + 1
ConvLayer_fromDef(l, def, r) ==
    LET sy == IF def.Sy = 0 /\ ~def.SyZero THEN def.Sx ELSE def.Sy
        stride == IF def.Stride = 0 /\ ~def.StrideZero THEN 1 ELSE def.Stride
    IN  IF stride = 0 THEN Failed(l, r, "runtime error: integer divide by zero")
        ELSE Built([l EXCEPT !.outDepth = def.Filters, !.sx = def.Sx, !.sy = sy,
                             !.inDepth = def.InDepth, !.inSx = def.InSx, !.inSy = def.InSy,
                             !.stride = stride, !.pad = def.Pad,
                             !.outSx = ((def.InSx + def.Pad * 2 - def.Sx) \div stride) + 1,
                             !.outSy = ((def.InSy + def.Pad * 2 - sy) \div stride) + 1], r)

KnownTypes ==
    {LayerFC, LayerLRN, LayerDropout, LayerInput, LayerSoftmax, LayerRegression,
     LayerConv, LayerPool, LayerRelu, LayerSigmoid, LayerTanh, LayerMaxout, LayerSVM}

\* n.Layers[i] = &XLayer{} followed by n.Layers[i].fromDef(def, r)
fromDef(def, r) ==
    LET l == [NilLayer EXCEPT !.type = def.Type, !.def = def]
    IN  CASE def.Type = LayerInput -> InputLayer_fromDef(l, def, r)
          [] def.Type = LayerFC -> FullyConnLayer_fromDef(l, def, r)
          [] def.Type = LayerLRN -> LocalResponseNormalizationLayer_fromDef(l, def, r)
          [] def.Type = LayerDropout -> DropoutLayer_fromDef(l, def, r)
          [] def.Type = LayerSoftmax -> SoftmaxLayer_fromDef(l, def, r)
          [] def.Type \in {LayerRegression, LayerSVM} -> LossLayer_fromDef(l, def, r)
          [] def.Type = LayerPool -> PoolLayer_fromDef(l, def, r)
          [] def.Type \in {LayerRelu, LayerSigmoid, LayerTanh} -> Nonlinearity_fromDef(l, def, r)
          [] def.Type = LayerMaxout -> MaxoutLayer_fromDef(l, def, r)
          [] def.Type = LayerConv -> ConvLayer_fromDef(l, def, r)

\* the OutSx, OutSy and OutDepth methods; MaxoutLayer's three panic("TODO")
OutPanics(l) == l.type = LayerMaxout
OutSx(l) == IF l.type \in {LayerFC, LayerSoftmax, LayerRegression, LayerSVM} THEN 1 ELSE l.outSx
OutSy(l) == IF l.type \in {LayerFC, LayerSoftmax, LayerRegression, LayerSVM} THEN 1 ELSE l.outSy
OutDepth(l) ==
    CASE l.type = LayerPool -> l.inDepth
      [] l.type \in {LayerRegression, LayerSVM} -> l.numInputs
      [] OTHER -> l.outDepth

\* the loop of MakeLayers over the desugared definitions, from definition i on
RECURSIVE makeFrom(_, _, _, _)

\* n.Layers[i] has been made (b is what fromDef did): go on with definition i + 1
makeNext(ds, i, layers, b) ==
    IF b.panic
    THEN [panic |-> TRUE, msg |-> b.msg, layers |-> [layers EXCEPT ![i] = b.layer],
          rng |-> b.rng]
    ELSE makeFrom(ds, i + 1, [layers EXCEPT ![i] = b.layer], b.rng)

\* the switch on def.Type and the fromDef call, def having its input shape
makeOne(ds, i, layers, r, def) ==
    IF def.Type \notin KnownTypes
    THEN [panic |-> TRUE, msg |-> "convnet: unrecognized layer type", layers |-> layers,
          rng |-> r]
    ELSE makeNext(ds, i, layers, fromDef(def, r))

makeFrom(ds, i, layers, r) ==
    IF i > Len(ds) THEN [panic |-> FALSE, msg |-> "", layers |-> layers, rng |-> r]
    ELSE IF i > 1 /\ OutPanics(layers[i - 1])
    THEN [panic |-> TRUE, msg |-> "TODO", layers |-> layers, rng |-> r]
    ELSE makeOne(ds, i, layers, r,
                 IF i > 1
                 THEN [ds[i] EXCEPT !.InSx = OutSx(layers[i - 1]),
                                    !.InSy = OutSy(layers[i - 1]),
                                    !.InDepth = OutDepth(layers[i - 1])]
                 ELSE ds[i])

\* if len(defs) < 2
tooFew_OffByOne(ds) == Len(ds) < 1

tooFew(ds) == Len(ds) < 2

\* MakeLayers once the loop over the desugared definitions has ended
makeDone(dd, m) ==
    [panic |-> m.panic, layers |-> m.layers, rng |-> m.rng, desugared |-> dd.out,
     msg |-> m.msg]

\* MakeLayers from "defs = desugar(defs)" on
makeDesugared(old, r, dd) ==
    IF dd.panic
    THEN [panic |-> TRUE, layers |-> old, rng |-> r, desugared |-> dd.out,
          msg |-> "convnet: unsupported activation"]
    ELSE makeDone(dd, makeFrom(dd.out, 1, Tuple([i \in 1..Len(dd.out) |-> NilLayer]), r))

\* (n *Net) MakeLayers: old is n.Layers before the call
MakeLayers(ds, old, r) ==
    IF tooFew(ds)
    THEN [panic |-> TRUE, layers |-> old, rng |-> r, desugared |-> <<>>,
          msg |-> "convnet: at least one input layer and one loss layer are required"]
    ELSE IF ds[1].Type # LayerInput
    THEN [panic |-> TRUE, layers |-> old, rng |-> r, desugared |-> <<>>,
          msg |-> "convnet: first layer must be the input layer, to declare size of inputs"]
    ELSE makeDesugared(old, r, desugar(ds))

----------------------------------------------------------------------------
(* math.Exp, math.Log and math.Tanh on rationals: rational functions with the   *)
(* same sign, monotonicity and fixed points (Exp(0) = 1, Exp(-x) = 1/Exp(x),    *)
(* Log(Exp(x)) = x, Tanh odd with values in (-1, 1)), each up to rounding       *)

Exp(x) == IF x[1] <= 0 THEN FDiv(One, FSub(One, x)) ELSE FAdd(One, x)
Log(p) == IF FLt(One, p) THEN FSub(p, One) ELSE FSub(One, FDiv(One, p))
Tanh(x) ==
    LET e == Exp(FMul(Int2F(2), x)) IN FDiv(FSub(e, One), FAdd(e, One))

----------------------------------------------------------------------------
(* layers: Forward.  vs is the sequence of Vols allocated so far, a *Vol is an  *)
(* index into it (0 is nil); a Forward that allocates its output appends to vs. *)

Zeros(n) == Tuple([i \in 1..n |-> Zero])
Clone(v) == [v EXCEPT !.Dw = Zeros(Len(v.W))]
CloneAndZero(v) == NewVol(v.Sx, v.Sy, v.Depth, Zero)

Fwd(l, vs, out, r) == [layer |-> l, vols |-> vs, out |-> out, rng |-> r]

\* InputLayer, RegressionLayer, SVMLayer: l.act = v; return v
Identity_Forward(l, vs, v, r) == Fwd([l EXCEPT !.inAct = v, !.outAct = v], vs, v, r)

FullyConnLayer_Forward(l, vs, v, r) ==
    LET a == [NewVol(1, 1, l.outDepth, Zero) EXCEPT
                 !.W = Tuple([i \in 1..l.outDepth |->
                          FAdd(SeqSum(Tuple([d \in 1..l.numInputs |->
                                          FMul(vs[v].W[d], l.filters[i].W[d])])),
                               l.biases.W[i])])]
        out == Len(vs) + 1
    IN  Fwd([l EXCEPT !.inAct = v, !.outAct = out], Append(vs, a), out, r)

ReluLayer_Forward(l, vs, v, r) ==
    LET c == Clone(vs[v])
        v2 == [c EXCEPT !.W = Tuple([i \in 1..Len(c.W) |->
                                  IF FLt(c.W[i], Zero) THEN Zero ELSE c.W[i]])]
        out == Len(vs) + 1
    IN  Fwd([l EXCEPT !.inAct = v, !.outAct = out], Append(vs, v2), out, r)

SigmoidLayer_Forward(l, vs, v, r) ==
    LET c == CloneAndZero(vs[v])
        v2 == [c EXCEPT !.W = Tuple([i \in 1..Len(c.W) |->
                                  FDiv(One, FAdd(One, Exp(FNeg(vs[v].W[i]))))])]
        out == Len(vs) + 1
    IN  Fwd([l EXCEPT !.inAct = v, !.outAct = out], Append(vs, v2), out, r)

TanhLayer_Forward(l, vs, v, r) ==
    LET c == CloneAndZero(vs[v])
        v2 == [c EXCEPT !.W = Tuple([i \in 1..Len(c.W) |-> Tanh(vs[v].W[i])])]
        out == Len(vs) + 1
    IN  Fwd([l EXCEPT !.inAct = v, !.outAct = out], Append(vs, v2), out, r)

dropScale_ByKeepProb(w, p) == FMul(w, FSub(One, p))

\* v2.W[i] *= l.dropProb
dropScale(w, p) == FMul(w, p)

DropoutLayer_Forward(l, vs, v, isTraining, r) ==
    LET c == Clone(vs[v])
        n == Len(c.W)
        drop == Tuple([i \in 1..n |-> FLt(Float64(r + i - 1), l.dropProb)])
        out == Len(vs) + 1
    IN  IF isTraining
        THEN Fwd([l EXCEPT !.inAct = v, !.outAct = out, !.dropped = drop],
                 Append(vs, [c EXCEPT !.W = Tuple([i \in 1..n |->
                                                IF drop[i] THEN Zero ELSE c.W[i]])]),
                 out, (r + n) % RandPeriod)
        ELSE Fwd([l EXCEPT !.inAct = v, !.outAct = out],
                 Append(vs, [c EXCEPT !.W = Tuple([i \in 1..n |-> dropScale(c.W[i], l.dropProb)])]),
                 out, r)

RECURSIVE MaxFrom(_, _, _)
MaxFrom(w, i, m) ==
    IF i > Len(w) THEN m ELSE MaxFrom(w, i + 1, IF FLt(m, w[i]) THEN w[i] ELSE m)

softmaxNorm_None(e, esum) == e

\* es[i] /= esum
softmaxNorm(e, esum) == FDiv(e, esum)

\* SoftmaxLayer.Forward stores es and outAct; it does not store its input
SoftmaxLayer_Forward(l, vs, v, r) ==
    LET as == vs[v].W
        amax == MaxFrom(SubSeq(as, 1, l.outDepth), 2, as[1])
        e == Tuple([i \in 1..l.outDepth |-> Exp(FSub(as[i], amax))])
        esum == SeqSum(e)
        es == Tuple([i \in 1..l.outDepth |-> softmaxNorm(e[i], esum)])
        a == [NewVol(1, 1, l.outDepth, Zero) EXCEPT !.W = es]
        out == Len(vs) + 1
    IN  Fwd([l EXCEPT !.es = es, !.outAct = out], Append(vs, a), out, r)

\* the scan of one receptive field, "for fx ... for fy ...", from its p-th position
\* on (fx = p / sy, fy = p % sy); x, y is the field's corner, best the running
\* bestValue, winx, winy
RECURSIVE poolScan(_, _, _, _, _, _, _)
poolScan(l, in, x, y, d, p, best) ==
    IF l.sx <= 0 \/ l.sy <= 0 \/ p >= l.sx * l.sy THEN best
    ELSE IF /\ y + (p % l.sy) >= 0 /\ y + (p % l.sy) < in.Sy
            /\ x + (p \div l.sy) >= 0 /\ x + (p \div l.sy) < in.Sx
            /\ FLt(best.value, in.W[index(in, x + (p \div l.sy), y + (p % l.sy), d) + 1])
    THEN poolScan(l, in, x, y, d, p + 1,
                  [value |-> in.W[index(in, x + (p \div l.sy), y + (p % l.sy), d) + 1],
                   winx |-> x + (p \div l.sy), winy |-> y + (p % l.sy)])
    ELSE poolScan(l, in, x, y, d, p + 1, best)

\* bestValue := -99999.0; winx, winy := -1, -1
poolStart == [value |-> Int2F(-99999), winx |-> -1, winy |-> -1]

\* what the scan leaves for output cell (ax, ay, d)
poolWin(l, in, ax, ay, d) ==
    poolScan(l, in, ax * l.stride - l.pad, ay * l.stride - l.pad, d, 0, poolStart)

\* the cell the switch counter n stands for: d outer, ax, ay inner
poolAx(l, n) == (n \div l.outSy) % l.outSx
poolAy(l, n) == n % l.outSy
poolD(l, n) == n \div (l.outSx * l.outSy)

\* the loops run only over positive outSx, outSy and inDepth
poolCells(l) ==
    IF l.outSx > 0 /\ l.outSy > 0 /\ l.inDepth > 0 THEN l.outSx * l.outSy * l.inDepth ELSE 0

PoolLayer_Forward(l, vs, v, r) ==
    Fwd([l EXCEPT !.inAct = v, !.outAct = Len(vs) + 1,
                  !.switchx = Tuple([n \in 1..Len(l.switchx) |->
                                  IF n > poolCells(l) THEN l.switchx[n]
                                  ELSE poolWin(l, vs[v], poolAx(l, n - 1), poolAy(l, n - 1),
                                               poolD(l, n - 1)).winx]),
                  !.switchy = Tuple([n \in 1..Len(l.switchy) |->
                                  IF n > poolCells(l) THEN l.switchy[n]
                                  ELSE poolWin(l, vs[v], poolAx(l, n - 1), poolAy(l, n - 1),
                                               poolD(l, n - 1)).winy])],
        Append(vs, [NewVol(l.outSx, l.outSy, l.inDepth, Zero) EXCEPT
                       !.W = Tuple([i \in 1..(l.outSx * l.outSy * l.inDepth) |->
                                 IF poolCells(l) = 0 THEN Zero
                                 ELSE poolWin(l, vs[v], ((i - 1) \div l.inDepth) % l.outSx,
                                              ((i - 1) \div l.inDepth) \div l.outSx,
                                              (i - 1) % l.inDepth).value])]),
        Len(vs) + 1, r)

\* one block of a MaxoutLayer: "for j := 1; j < l.groupSize; j++" from j on, w the
\* members' values in order, a and ai the running maximum and its member
RECURSIVE maxoutScan(_, _, _, _)
maxoutScan(w, j, a, ai) ==
    IF j >= Len(w) THEN [a |-> a, ai |-> ai]
    ELSE IF FLt(a, w[j + 1]) THEN maxoutScan(w, j + 1, w[j + 1], j)
    ELSE maxoutScan(w, j + 1, a, ai)

\* block i of a 1x1 input: v.W[ix], v.W[ix+1], ...
maxoutBlock1(l, in, i) ==
    maxoutScan(Tuple([j \in 1..l.groupSize |-> in.W[i * l.groupSize + j]]), 1,
               in.W[i * l.groupSize + 1], 0)

\* block i at (x, y) of a spatial input: v.Get(x, y, ix), v.Get(x, y, ix+1), ...
maxoutBlock(l, in, x, y, i) ==
    maxoutScan(Tuple([j \in 1..l.groupSize |->
                   in.W[index(in, x, y, i * l.groupSize + j - 1) + 1]]), 1,
               in.W[index(in, x, y, i * l.groupSize) + 1], 0)

\* the branch "if l.outSx == 1 && l.outSy == 1"
MaxoutLayer_Forward1(l, vs, v, r) ==
    Fwd([l EXCEPT !.inAct = v, !.outAct = Len(vs) + 1,
                  !.switches = Tuple([n \in 1..Len(l.switches) |->
                                   IF n > l.outDepth THEN l.switches[n]
                                   ELSE (n - 1) * l.groupSize
                                        + maxoutBlock1(l, vs[v], n - 1).ai])],
        Append(vs, [NewVol(l.outSx, l.outSy, l.outDepth, Zero) EXCEPT
                       !.W = Tuple([i \in 1..l.outDepth |-> maxoutBlock1(l, vs[v], i - 1).a])]),
        Len(vs) + 1, r)

\* the else branch: the switch counter n runs x outer, y, then i
MaxoutLayer_ForwardN(l, vs, v, r) ==
    Fwd([l EXCEPT !.inAct = v, !.outAct = Len(vs) + 1,
                  !.switches = Tuple([n \in 1..Len(l.switches) |->
                                   ((n - 1) % l.outDepth) * l.groupSize
                                   + maxoutBlock(l, vs[v],
                                                 ((n - 1) \div l.outDepth) \div vs[v].Sy,
                                                 ((n - 1) \div l.outDepth) % vs[v].Sy,
                                                 (n - 1) % l.outDepth).ai])],
        Append(vs, [NewVol(l.outSx, l.outSy, l.outDepth, Zero) EXCEPT
                       !.W = Tuple([i \in 1..(l.outSx * l.outSy * l.outDepth) |->
                                 maxoutBlock(l, vs[v],
                                             ((i - 1) \div l.outDepth) % l.outSx,
                                             ((i - 1) \div l.outDepth) \div l.outSx,
                                             (i - 1) % l.outDepth).a])]),
        Len(vs) + 1, r)

MaxoutLayer_Forward(l, vs, v, r) ==
    IF l.outSx = 1 /\ l.outSy = 1 THEN MaxoutLayer_Forward1(l, vs, v, r)
    ELSE MaxoutLayer_ForwardN(l, vs, v, r)

\* math.Pow(b, e) for an exponent e that is a whole number
Pow(b, e) == IF e[1] >= 0 THEN PowInt(b, e[1]) ELSE FDiv(One, PowInt(b, -e[1]))

lrnHalf_Whole(n) == n

\* n2 := l.n / 2
lrnHalf(n) == GoDiv(n, 2)

\* min := i - n2, raised to 0; max := i + n2, lowered to v.Depth - 1
lrnMin(i, n2) == IF i - n2 < 0 THEN 0 ELSE i - n2
lrnMax(i, n2, depth) == IF i + n2 >= depth THEN depth - 1 ELSE i + n2

\* the channel, column and row of element p (0-based) of a Vol
volD(v, p) == p % v.Depth
volX(v, p) == (p \div v.Depth) % v.Sx
volY(v, p) == (p \div v.Depth) \div v.Sx

\* den after "for j := min; j <= max; j++ { aa := v.Get(x, y, j); den += aa * aa }"
RECURSIVE lrnSumSq(_, _, _, _, _, _)
lrnSumSq(v, x, y, j, max, den) ==
    IF j > max THEN den
    ELSE lrnSumSq(v, x, y, j + 1, max,
                  FAdd(den, FMul(v.W[index(v, x, y, j) + 1], v.W[index(v, x, y, j) + 1])))

\* the value stored in l.s for element p
lrnDen(l, v, p) ==
    FAdd(FMul(lrnSumSq(v, volX(v, p), volY(v, p), lrnMin(volD(v, p), lrnHalf(l.n)),
                       lrnMax(volD(v, p), lrnHalf(l.n), v.Depth), Zero),
              FDiv(l.alpha, Int2F(l.n))),
         l.k)

lrnForwardWith(l, vs, v, r, s) ==
    Fwd([l EXCEPT !.inAct = v, !.outAct = Len(vs) + 1, !.s = s],
        Append(vs, [CloneAndZero(vs[v]) EXCEPT
                       !.W = Tuple([p \in 1..Len(vs[v].W) |->
                                       FDiv(vs[v].W[p], Pow(s.W[p], l.beta))])]),
        Len(vs) + 1, r)

LocalResponseNormalizationLayer_Forward(l, vs, v, r) ==
    lrnForwardWith(l, vs, v, r,
                   [CloneAndZero(vs[v]) EXCEPT
                       !.W = Tuple([p \in 1..Len(vs[v].W) |-> lrnDen(l, vs[v], p - 1)])])

Layer_Forward(l, vs, v, isTraining, r) ==
    CASE l.type \in {LayerInput, LayerRegression, LayerSVM} -> Identity_Forward(l, vs, v, r)
      [] l.type = LayerFC -> FullyConnLayer_Forward(l, vs, v, r)
      [] l.type = LayerRelu -> ReluLayer_Forward(l, vs, v, r)
      [] l.type = LayerSigmoid -> SigmoidLayer_Forward(l, vs, v, r)
      [] l.type = LayerTanh -> TanhLayer_Forward(l, vs, v, r)
      [] l.type = LayerDropout -> DropoutLayer_Forward(l, vs, v, isTraining, r)
      [] l.type = LayerSoftmax -> SoftmaxLayer_Forward(l, vs, v, r)
      [] l.type = LayerPool -> PoolLayer_Forward(l, vs, v, r)
      [] l.type = LayerMaxout -> MaxoutLayer_Forward(l, vs, v, r)
      [] l.type = LayerLRN -> LocalResponseNormalizationLayer_Forward(l, vs, v, r)

\* (n *Net) Forward from layer i on; act is the Vol handed to layer i
RECURSIVE forwardFrom(_, _, _, _, _, _)

\* act = n.Layers[i].Forward(act, isTraining) has returned f: go on with layer i + 1
forwardNext(layers, i, isTraining, f) ==
    forwardFrom([layers EXCEPT ![i] = f.layer], i + 1, f.vols, f.out, isTraining, f.rng)

forwardFrom(layers, i, vs, act, isTraining, r) ==
    IF i > Len(layers) THEN [layers |-> layers, vols |-> vs, out |-> act, rng |-> r]
    ELSE forwardNext(layers, i, isTraining, Layer_Forward(layers[i], vs, act, isTraining, r))

\* (n *Net) Forward(v, isTraining), v a Vol the caller made: it becomes vols[1]
Net_Forward(layers, v, isTraining, r) == forwardFrom(layers, 1, <<v>>, 1, isTraining, r)

----------------------------------------------------------------------------
(* layers: Backward and BackwardLoss *)

Bwd(l, vs) == [panic |-> FALSE, msg |-> "", layer |-> l, vols |-> vs]

\* a Backward that panics on a slice index, leaving behind what it had written
BwdPanic(l, vs) ==
    [panic |-> TRUE, msg |-> "runtime error: index out of range", layer |-> l, vols |-> vs]

\* x += dx on a gradient element
accumulate_Overwrites(x, dx) == dx

accumulate(x, dx) == FAdd(x, dx)

fcInputStart_Kept(old) == old

\* v.Dw = make([]float64, len(v.W)): what an input gradient element holds when the
\* loop starts, old being what it held before the call
fcInputStart(old) == Zero

FullyConnLayer_Backward(l, vs) ==
    LET v == vs[l.inAct]
        chainGrad == vs[l.outAct].Dw
        dw == Tuple([d \in 1..Len(v.W) |->
                  IF d <= l.numInputs
                  THEN FAdd(fcInputStart(v.Dw[d]),
                            SeqSum(Tuple([i \in 1..Len(l.filters) |->
                                       FMul(l.filters[i].W[d], chainGrad[i])])))
                  ELSE fcInputStart(v.Dw[d])])
        filters == Tuple([i \in 1..Len(l.filters) |->
                       [l.filters[i] EXCEPT
                           !.Dw = Tuple([d \in 1..Len(l.filters[i].Dw) |->
                                      accumulate(l.filters[i].Dw[d],
                                                 FMul(v.W[d], chainGrad[i]))])]])
        biases == [l.biases EXCEPT
                      !.Dw = Tuple([i \in 1..Len(l.biases.Dw) |->
                                 accumulate(l.biases.Dw[i], chainGrad[i])])]
    IN  Bwd([l EXCEPT !.filters = filters, !.biases = biases],
            [vs EXCEPT ![l.inAct].Dw = dw])

ReluLayer_Backward(l, vs) ==
    LET v2 == vs[l.outAct]
    IN  Bwd(l, [vs EXCEPT ![l.inAct].Dw =
                   Tuple([i \in 1..Len(vs[l.inAct].W) |->
                       IF ~FLt(Zero, v2.W[i]) THEN Zero ELSE v2.Dw[i]])])

SigmoidLayer_Backward(l, vs) ==
    LET v2 == vs[l.outAct]
    IN  Bwd(l, [vs EXCEPT ![l.inAct].Dw =
                   Tuple([i \in 1..Len(vs[l.inAct].W) |->
                       FMul(FMul(v2.W[i], FSub(One, v2.W[i])), v2.Dw[i])])])

TanhLayer_Backward(l, vs) ==
    LET v2 == vs[l.outAct]
    IN  Bwd(l, [vs EXCEPT ![l.inAct].Dw =
                   Tuple([i \in 1..Len(vs[l.inAct].W) |->
                       FMul(FSub(One, FMul(v2.W[i], v2.W[i])), v2.Dw[i])])])

dropPass_Inverted(dropped, g) == IF dropped THEN g ELSE Zero

\* if !l.dropped[i] { v.Dw[i] = chainGrad.Dw[i] }
dropPass(dropped, g) == IF ~dropped THEN g ELSE Zero

DropoutLayer_Backward(l, vs) ==
    LET chainGrad == vs[l.outAct]
    IN  Bwd(l, [vs EXCEPT ![l.inAct].Dw =
                   Tuple([i \in 1..Len(vs[l.inAct].W) |->
                       dropPass(l.dropped[i], chainGrad.Dw[i])])])

\* the loops of PoolLayer.Backward from switch counter n on; dw is v.Dw so far
RECURSIVE poolBackFrom(_, _, _, _)
poolBackFrom(l, vs, n, dw) ==
    IF n >= poolCells(l) THEN Bwd(l, [vs EXCEPT ![l.inAct].Dw = dw])
    ELSE IF \/ index(vs[l.inAct], l.switchx[n + 1], l.switchy[n + 1], poolD(l, n)) < 0
            \/ index(vs[l.inAct], l.switchx[n + 1], l.switchy[n + 1], poolD(l, n)) >= Len(dw)
    THEN BwdPanic(l, [vs EXCEPT ![l.inAct].Dw = dw])
    ELSE poolBackFrom(l, vs, n + 1,
             [dw EXCEPT ![index(vs[l.inAct], l.switchx[n + 1], l.switchy[n + 1],
                                poolD(l, n)) + 1] =
                 accumulate(@, vs[l.outAct].Dw[index(vs[l.outAct], poolAx(l, n), poolAy(l, n),
                                                     poolD(l, n)) + 1])])

PoolLayer_Backward(l, vs) == poolBackFrom(l, vs, 0, Zeros(Len(vs[l.inAct].W)))

\* "for i := range v.Dw" of MaxoutLayer.Backward from i on: v2.Dw[i] and
\* l.switches[i] are read for every index of the input
RECURSIVE maxoutBack1From(_, _, _, _)
maxoutBack1From(l, vs, i, dw) ==
    IF i >= Len(dw) THEN Bwd(l, [vs EXCEPT ![l.inAct].Dw = dw])
    ELSE IF i >= Len(vs[l.outAct].Dw) \/ i >= Len(l.switches)
            \/ l.switches[i + 1] >= Len(dw)
    THEN BwdPanic(l, [vs EXCEPT ![l.inAct].Dw = dw])
    ELSE maxoutBack1From(l, vs, i + 1,
                         [dw EXCEPT ![l.switches[i + 1] + 1] = vs[l.outAct].Dw[i + 1]])

\* the else branch, from switch counter n on: x outer over v2.Sx, y, then i
RECURSIVE maxoutBackFrom(_, _, _, _)
maxoutBackFrom(l, vs, n, dw) ==
    IF n >= vs[l.outAct].Sx * vs[l.outAct].Sy * l.outDepth
    THEN Bwd(l, [vs EXCEPT ![l.inAct].Dw = dw])
    ELSE maxoutBackFrom(l, vs, n + 1,
             [dw EXCEPT ![index(vs[l.inAct], (n \div l.outDepth) \div vs[l.outAct].Sy,
                                (n \div l.outDepth) % vs[l.outAct].Sy,
                                l.switches[n + 1]) + 1] =
                 vs[l.outAct].Dw[index(vs[l.outAct], (n \div l.outDepth) \div vs[l.outAct].Sy,
                                       (n \div l.outDepth) % vs[l.outAct].Sy,
                                       n % l.outDepth) + 1]])

MaxoutLayer_Backward(l, vs) ==
    IF l.outSx = 1 /\ l.outSy = 1
    THEN maxoutBack1From(l, vs, 0, Zeros(Len(vs[l.inAct].W)))
    ELSE maxoutBackFrom(l, vs, 0, Zeros(Len(vs[l.inAct].W)))

\* Backward of InputLayer and of the loss layers is empty
\* g for the pair (i, j) of element p's position, chainGrad being a.GetGrad(x, y, i)
\* and sv being l.s.Get(x, y, i)
lrnG(l, aj, sv, same, chainGrad) ==
    FMul(FDiv(FAdd(FMul(FMul(FDiv(FMul(FMul(FMul(FNeg(aj), l.beta),
                                             Pow(sv, FSub(l.beta, One))),
                                        l.alpha),
                                   Int2F(l.n)),
                              Int2F(2)),
                         aj),
                   IF same THEN Pow(sv, l.beta) ELSE Zero),
              FMul(Pow(sv, l.beta), Pow(sv, l.beta))),
         chainGrad)

\* the loop "for j := min; j <= max; j++" of element p: v.AddGrad(x, y, j, g)
RECURSIVE lrnBackWindow(_, _, _, _, _, _, _)
lrnBackWindow(l, v, a, p, j, max, dw) ==
    IF j > max THEN dw
    ELSE lrnBackWindow(l, v, a, p, j + 1, max,
             [dw EXCEPT ![index(v, volX(v, p), volY(v, p), j) + 1] =
                 FAdd(@, lrnG(l, v.W[index(v, volX(v, p), volY(v, p), j) + 1],
                              l.s.W[p + 1], j = volD(v, p), a.Dw[p + 1]))])

\* the loops over x, y and i from element p on; dw is v.Dw so far
RECURSIVE lrnBackFrom(_, _, _, _, _)
lrnBackFrom(l, v, a, p, dw) ==
    IF p >= Len(v.W) THEN dw
    ELSE lrnBackFrom(l, v, a, p + 1,
             lrnBackWindow(l, v, a, p, lrnMin(volD(v, p), lrnHalf(l.n)),
                           lrnMax(volD(v, p), lrnHalf(l.n), v.Depth), dw))

LocalResponseNormalizationLayer_Backward(l, vs) ==
    Bwd(l, [vs EXCEPT ![l.inAct].Dw =
               lrnBackFrom(l, vs[l.inAct], vs[l.outAct], 0,
                           Tuple([i \in 1..Len(vs[l.inAct].W) |-> Zero]))])

Layer_Backward(l, vs) ==
    CASE l.type = LayerFC -> FullyConnLayer_Backward(l, vs)
      [] l.type = LayerRelu -> ReluLayer_Backward(l, vs)
      [] l.type = LayerSigmoid -> SigmoidLayer_Backward(l, vs)
      [] l.type = LayerTanh -> TanhLayer_Backward(l, vs)
      [] l.type = LayerDropout -> DropoutLayer_Backward(l, vs)
      [] l.type = LayerPool -> PoolLayer_Backward(l, vs)
      [] l.type = LayerMaxout -> MaxoutLayer_Backward(l, vs)
      [] l.type = LayerLRN -> LocalResponseNormalizationLayer_Backward(l, vs)
      [] l.type \in {LayerInput, LayerSoftmax, LayerRegression, LayerSVM} -> Bwd(l, vs)

\* a label; Dim is 0-based as in the source
LossData(dim, val) == [Dim |-> dim, Val |-> val]

Loss(vs, loss) == [panic |-> FALSE, msg |-> "", vols |-> vs, loss |-> loss]
NilDeref(vs) ==
    [panic |-> TRUE, msg |-> "runtime error: invalid memory address or nil pointer dereference",
     vols |-> vs, loss |-> Zero]

\* x := l.inAct; x.Dw = make(...): inAct is nil unless something stored it
SoftmaxLayer_BackwardLoss(l, vs, y) ==
    IF l.inAct = 0 THEN NilDeref(vs)
    ELSE Loss([vs EXCEPT ![l.inAct].Dw =
                  Tuple([i \in 1..Len(vs[l.inAct].W) |->
                      IF i <= l.outDepth
                      THEN FNeg(FSub(IF i = y.Dim + 1 THEN One ELSE Zero, l.es[i]))
                      ELSE Zero])],
              FNeg(Log(l.es[y.Dim + 1])))

regressionDy_Swapped(x, y) == FSub(y.Val, x.W[y.Dim + 1])

\* dy := x.W[i] - yi
regressionDy(x, y) == FSub(x.W[y.Dim + 1], y.Val)

RegressionLayer_BackwardLoss(l, vs, y) ==
    IF l.inAct = 0 THEN NilDeref(vs)
    ELSE LET x == vs[l.inAct]
             dy == regressionDy(x, y)
         IN  Loss([vs EXCEPT ![l.inAct].Dw =
                      Tuple([i \in 1..Len(x.W) |-> IF i = y.Dim + 1 THEN dy ELSE Zero])],
                  FMul(FMul(<<1, 2>>, dy), dy))

svmYdiff_NoMargin(x, y, i) == FAdd(FNeg(x.W[y.Dim + 1]), x.W[i + 1])

\* ydiff := -yscore + x.W[i] + margin, the margin being 1.0
svmYdiff(x, y, i) == FAdd(FAdd(FNeg(x.W[y.Dim + 1]), x.W[i + 1]), One)

\* the loop of SVMLayer.BackwardLoss from class i (0-based) on; acc holds x.Dw and loss
RECURSIVE svmFrom(_, _, _, _, _)
svmFrom(l, x, y, i, acc) ==
    IF i >= l.numInputs THEN acc
    ELSE IF y.Dim = i THEN svmFrom(l, x, y, i + 1, acc)
    ELSE LET ydiff == svmYdiff(x, y, i)
         IN  IF FLt(Zero, ydiff)
             THEN svmFrom(l, x, y, i + 1,
                          [Dw |-> [[acc.Dw EXCEPT ![i + 1] = FAdd(@, One)]
                                      EXCEPT ![y.Dim + 1] = FSub(@, One)],
                           loss |-> FAdd(acc.loss, ydiff)])
             ELSE svmFrom(l, x, y, i + 1, acc)

SVMLayer_BackwardLoss(l, vs, y) ==
    IF l.inAct = 0 THEN NilDeref(vs)
    ELSE LET x == vs[l.inAct]
             r == svmFrom(l, x, y, 0, [Dw |-> Zeros(Len(x.W)), loss |-> Zero])
         IN  Loss([vs EXCEPT ![l.inAct].Dw = r.Dw], r.loss)

Layer_BackwardLoss(l, vs, y) ==
    CASE l.type = LayerSoftmax -> SoftmaxLayer_BackwardLoss(l, vs, y)
      [] l.type = LayerRegression -> RegressionLayer_BackwardLoss(l, vs, y)
      [] l.type = LayerSVM -> SVMLayer_BackwardLoss(l, vs, y)

\* the loop of Net.Backward from layer i (1-based) down to the first; trace lists
\* the calls made, with the 0-based layer index of the source
RECURSIVE backwardFrom(_, _, _, _)

\* n.Layers[i].Backward() has done b: go on with layer i - 1
backwardNext(layers, i, trace, b) ==
    IF b.panic
    THEN [panic |-> TRUE, msg |-> b.msg, layers |-> [layers EXCEPT ![i] = b.layer],
          vols |-> b.vols, trace |-> Append(trace, <<"Backward", i - 1>>)]
    ELSE backwardFrom([layers EXCEPT ![i] = b.layer], i - 1, b.vols,
                      Append(trace, <<"Backward", i - 1>>))

backwardFrom(layers, i, vs, trace) ==
    IF i < 1 THEN [panic |-> FALSE, msg |-> "", layers |-> layers, vols |-> vs, trace |-> trace]
    ELSE backwardNext(layers, i, trace, Layer_Backward(layers[i], vs))

\* return loss, b being what the loop over the other layers has done
backwardDone(bl, b) ==
    [panic |-> b.panic, msg |-> b.msg, layers |-> b.layers, vols |-> b.vols,
     trace |-> b.trace, loss |-> IF b.panic THEN Zero ELSE bl.loss]

\* Net.Backward once BackwardLoss has returned (or panicked with) bl
backwardLossDone(layers, n, bl) ==
    IF bl.panic
    THEN [panic |-> TRUE, msg |-> bl.msg, layers |-> layers, vols |-> bl.vols,
          trace |-> <<<<"BackwardLoss", n - 1>>>>, loss |-> Zero]
    ELSE backwardDone(bl, backwardFrom(layers, n - 1, bl.vols,
                                       <<<<"BackwardLoss", n - 1>>>>))

\* (n *Net) Backward(y)
Net_Backward(layers, vs, y) ==
    IF Len(layers) = 0
    THEN [panic |-> TRUE, msg |-> "runtime error: index out of range", layers |-> layers,
          vols |-> vs, trace |-> <<>>, loss |-> Zero]
    ELSE IF ~(layers[Len(layers)].type \in LossTypes)
    THEN [panic |-> TRUE, msg |-> "interface conversion: Layer is not LossLayer",
          layers |-> layers, vols |-> vs, trace |-> <<>>, loss |-> Zero]
    ELSE backwardLossDone(layers, Len(layers),
                          Layer_BackwardLoss(layers[Len(layers)], vs, y))

\* Net.CostLoss after n.Forward(v, false) has returned f: the last layer's
\* BackwardLoss(y) and none of the other layers' Backward
costLossForwarded(y, f) ==
    IF Len(f.layers) = 0
    THEN [panic |-> TRUE, msg |-> "runtime error: index out of range",
          layers |-> f.layers, vols |-> f.vols, rng |-> f.rng, loss |-> Zero]
    ELSE IF ~(f.layers[Len(f.layers)].type \in LossTypes)
    THEN [panic |-> TRUE, msg |-> "interface conversion: Layer is not LossLayer",
          layers |-> f.layers, vols |-> f.vols, rng |-> f.rng, loss |-> Zero]
    ELSE LET bl == Layer_BackwardLoss(f.layers[Len(f.layers)], f.vols, y)
         IN  [panic |-> bl.panic, msg |-> bl.msg, layers |-> f.layers, vols |-> bl.vols,
              rng |-> f.rng, loss |-> bl.loss]

costLossIsTraining_True == TRUE

\* the isTraining argument of n.Forward(v, false)
costLossIsTraining == FALSE

\* (n *Net) CostLoss(v, y)
Net_CostLoss(layers, v, y, r) ==
    costLossForwarded(y, Net_Forward(layers, v, costLossIsTraining, r))

----------------------------------------------------------------------------
(* ParamsAndGrads: a parameter buffer is named by its layer (1-based) and its   *)
(* filter, filter 0 being the biases; Params and Grads alias the layer's Vols   *)

PG(li, fi, l1, l2) == [layer |-> li, filter |-> fi, L1DecayMul |-> l1, L2DecayMul |-> l2]

FullyConnLayer_ParamsAndGrads(l, li) ==
    Tuple([i \in 1..(Len(l.filters) + 1) |->
        IF i <= Len(l.filters) THEN PG(li, i, l.l1DecayMul, l.l2DecayMul)
        ELSE PG(li, 0, Zero, Zero)])

\* SigmoidLayer.ParamsAndGrads and MaxoutLayer.ParamsAndGrads are panic("TODO")
ParamsAndGradsPanics(l) == l.type \in {LayerSigmoid, LayerMaxout}

Layer_ParamsAndGrads(l, li) ==
    IF l.type = LayerFC THEN FullyConnLayer_ParamsAndGrads(l, li) ELSE <<>>

RECURSIVE paramsFrom(_, _, _)
paramsFrom(layers, i, response) ==
    IF i > Len(layers) THEN [panic |-> FALSE, list |-> response]
    ELSE IF ParamsAndGradsPanics(layers[i]) THEN [panic |-> TRUE, list |-> response]
    ELSE paramsFrom(layers, i + 1, response \o Layer_ParamsAndGrads(layers[i], i))

\* (n *Net) ParamsAndGrads
Net_ParamsAndGrads(layers) == paramsFrom(layers, 1, <<>>)

predBetter_OrEqual(pi, maxv) == ~FLt(pi, maxv)

\* if p[i] > maxv
predBetter(pi, maxv) == FLt(maxv, pi)

\* the loop of Net.Prediction from index i (0-based) on
RECURSIVE predFrom(_, _, _, _)
predFrom(p, i, maxv, maxi) ==
    IF i >= Len(p) THEN maxi
    ELSE IF predBetter(p[i + 1], maxv) THEN predFrom(p, i + 1, p[i + 1], i)
    ELSE predFrom(p, i + 1, maxv, maxi)

Predicted(pan, m, maxi) == [panic |-> pan, msg |-> m, maxi |-> maxi]

\* (n *Net) Prediction
Net_Prediction(layers, vs) ==
    IF Len(layers) = 0 THEN Predicted(TRUE, "runtime error: index out of range", 0)
    ELSE IF layers[Len(layers)].type # LayerSoftmax
    THEN Predicted(TRUE, "convnet: Net.Prediction assumes softmax as the last layer of the net!", 0)
    ELSE IF layers[Len(layers)].outAct = 0
    THEN Predicted(TRUE, "runtime error: invalid memory address or nil pointer dereference", 0)
    ELSE IF Len(vs[layers[Len(layers)].outAct].W) = 0
    THEN Predicted(TRUE, "runtime error: index out of range", 0)
    ELSE Predicted(FALSE, "",
                   predFrom(vs[layers[Len(layers)].outAct].W, 1,
                            vs[layers[Len(layers)].outAct].W[1], 0))

ParamVol(layers, pg) ==
    IF pg.filter = 0 THEN layers[pg.layer].biases ELSE layers[pg.layer].filters[pg.filter]

SetParamVol(layers, pg, v) ==
    IF pg.filter = 0 THEN [layers EXCEPT ![pg.layer].biases = v]
    ELSE [layers EXCEPT ![pg.layer].filters[pg.filter] = v]

----------------------------------------------------------------------------
(* Trainer *)

MethodSGD == 0
MethodAdam == 1
MethodADAGrad == 2
MethodADADelta == 3
MethodWindowGrad == 4
MethodNetsterov == 5

\* t.Method != MethodSGD || t.Momentum > 0.0
needsAccumulators(o) == o.Method # MethodSGD \/ FLt(Zero, o.Momentum)

notAllocated_Always(gs) == TRUE

\* len(t.gsum) == 0
notAllocated(gs) == Len(gs) = 0

\* t.k%t.BatchSize == 0
batchDone(kk, o) == kk % AbsInt(o.BatchSize) = 0

\* the accumulator lists after the "initialize lists for accumulators" step
Allocate(o, layers, pglist, gs, xs) ==
    IF notAllocated(gs) /\ needsAccumulators(o)
    THEN [gsum |-> Tuple([i \in 1..Len(pglist) |-> Zeros(Len(ParamVol(layers, pglist[i]).W))]),
          xsum |-> Tuple([i \in 1..Len(pglist) |->
                       IF o.Method = MethodAdam \/ o.Method = MethodADADelta
                       THEN Zeros(Len(ParamVol(layers, pglist[i]).W))
                       ELSE <<>>])]
    ELSE IF notAllocated(gs)
    THEN [gsum |-> Tuple([i \in 1..Len(pglist) |-> <<>>]),
          xsum |-> Tuple([i \in 1..Len(pglist) |-> <<>>])]
    ELSE [gsum |-> gs, xsum |-> xs]

\* one element's step under each method: p is p[j], gij the raw batch gradient,
\* gs and xs are gsumi[j] and xsumi[j]; each returns the new p, gs, xs
Stepped(p, dx, gs, xs) == [p |-> FAdd(p, dx), gs |-> gs, xs |-> xs]

adamStep(o, kk, p, gs2, xs2) ==
    Stepped(p,
            FDiv(FMul(FNeg(o.LearningRate), FMul(gs2, FSub(One, PowInt(o.Beta1, kk)))),
                 FAdd(Sqrt(FMul(xs2, FSub(One, PowInt(o.Beta2, kk)))), o.Eps)),
            gs2, xs2)

adam(o, kk, p, gij, gs, xs) ==
    adamStep(o, kk, p,
             FAdd(FMul(gs, o.Beta1), FMul(FSub(One, o.Beta1), gij)),
             FAdd(FMul(xs, o.Beta2), FMul(FMul(FSub(One, o.Beta2), gij), gij)))

adagradStep(o, p, gij, gs2, xs) ==
    Stepped(p, FMul(FDiv(FNeg(o.LearningRate), Sqrt(FAdd(gs2, o.Eps))), gij), gs2, xs)

adagrad(o, p, gij, gs, xs) == adagradStep(o, p, gij, FAdd(gs, FMul(gij, gij)), xs)

\* windowgrad shares adagrad's step on a moving average of the squared gradient
windowgrad(o, p, gij, gs, xs) ==
    adagradStep(o, p, gij, FAdd(FMul(o.Ro, gs), FMul(FMul(FSub(One, o.Ro), gij), gij)), xs)

adadeltaDx(o, p, dx, gs2, xs) ==
    Stepped(p, dx, gs2, FAdd(FMul(o.Ro, xs), FMul(FMul(FSub(One, o.Ro), dx), dx)))

adadeltaStep(o, p, gij, gs2, xs) ==
    adadeltaDx(o, p, FMul(FNeg(Sqrt(FDiv(FAdd(xs, o.Eps), FAdd(gs2, o.Eps)))), gij),
               gs2, xs)

adadelta(o, p, gij, gs, xs) ==
    adadeltaStep(o, p, gij, FAdd(FMul(o.Ro, gs), FMul(FMul(FSub(One, o.Ro), gij), gij)), xs)

nesterovStep(o, p, gs, gs2, xs) ==
    Stepped(p, FSub(FMul(o.Momentum, gs), FMul(FAdd(One, o.Momentum), gs2)), gs2, xs)

nesterov(o, p, gij, gs, xs) ==
    nesterovStep(o, p, gs, FAdd(FMul(gs, o.Momentum), FMul(o.LearningRate, gij)), xs)

momentumStep(p, dx, xs) == Stepped(p, dx, dx, xs)

\* the default case of the switch: "assume SGD"
sgd(o, p, gij, gs, xs) ==
    IF FLt(Zero, o.Momentum)
    THEN momentumStep(p, FSub(FMul(o.Momentum, gs), FMul(o.LearningRate, gij)), xs)
    ELSE Stepped(p, FMul(FNeg(o.LearningRate), gij), gs, xs)

\* switch t.Method
applyMethod(o, kk, p, gij, gs, xs) ==
    CASE o.Method = MethodAdam -> adam(o, kk, p, gij, gs, xs)
      [] o.Method = MethodADAGrad -> adagrad(o, p, gij, gs, xs)
      [] o.Method = MethodWindowGrad -> windowgrad(o, p, gij, gs, xs)
      [] o.Method = MethodADADelta -> adadelta(o, p, gij, gs, xs)
      [] o.Method = MethodNetsterov -> nesterov(o, p, gij, gs, xs)
      [] OTHER -> sgd(o, p, gij, gs, xs)

\* the body of the loop over j for one element: p[j], g[j], gsumi[j], xsumi[j]
\* (gs, xs are Zero where the slice is nil and unused); returns the new p, gs, xs
updateElem(o, kk, p, g, gs, xs, l1Decay, l2Decay) ==
    applyMethod(o, kk, p,
                FDiv(FAdd(FAdd(FMul(l2Decay, p), FMul(l1Decay, Copysign1(p))), g),
                     Int2F(o.BatchSize)),
                gs, xs)

\* g[j] = 0.0 at the end of the loop body
zeroGrad(g) == Zero

l2Loss_NoHalf(l2Decay, p) == FMul(FMul(l2Decay, p), p)

\* l2Decay * p[j] * p[j] / 2, what one element adds to l2DecayLoss
l2Loss(l2Decay, p) == FDiv(FMul(FMul(l2Decay, p), p), Int2F(2))

\* l1Decay * math.Abs(p[j]), what one element adds to l1DecayLoss
l1Loss(l1Decay, p) == FMul(l1Decay, FAbs(p))

RECURSIVE updateFrom(_, _, _, _, _)

\* buffer i has been stepped (e holds its elements' new p, gs, xs): store them,
\* zero its gradients, add its decay losses, and go on with buffer i + 1
updateNext(o, kk, pglist, i, acc, v, l1Decay, l2Decay, e) ==
    updateFrom(o, kk, pglist, i + 1,
        [layers |-> SetParamVol(acc.layers, pglist[i],
                        [v EXCEPT !.W = Tuple([j \in 1..Len(v.W) |-> e[j].p]),
                                  !.Dw = Tuple([j \in 1..Len(v.W) |-> zeroGrad(v.Dw[j])])]),
         gsum |-> IF acc.gsum[i] = <<>> THEN acc.gsum
                  ELSE [acc.gsum EXCEPT ![i] = Tuple([j \in 1..Len(v.W) |-> e[j].gs])],
         xsum |-> IF acc.xsum[i] = <<>> THEN acc.xsum
                  ELSE [acc.xsum EXCEPT ![i] = Tuple([j \in 1..Len(v.W) |-> e[j].xs])],
         l2DecayLoss |-> FAdd(acc.l2DecayLoss,
                              SeqSum(Tuple([j \in 1..Len(v.W) |-> l2Loss(l2Decay, v.W[j])]))),
         l1DecayLoss |-> FAdd(acc.l1DecayLoss,
                              SeqSum(Tuple([j \in 1..Len(v.W) |-> l1Loss(l1Decay, v.W[j])])))])

\* one buffer: v is its Vol (Params = v.W, Grads = v.Dw)
updateOne(o, kk, pglist, i, acc, v, l1Decay, l2Decay) ==
    updateNext(o, kk, pglist, i, acc, v, l1Decay, l2Decay,
               Tuple([j \in 1..Len(v.W) |->
                   updateElem(o, kk, v.W[j], v.Dw[j],
                              IF acc.gsum[i] = <<>> THEN Zero ELSE acc.gsum[i][j],
                              IF acc.xsum[i] = <<>> THEN Zero ELSE acc.xsum[i][j],
                              l1Decay, l2Decay)]))

\* the loop "for i, pg := range pglist" from buffer i on
updateFrom(o, kk, pglist, i, acc) ==
    IF i > Len(pglist) THEN acc
    ELSE updateOne(o, kk, pglist, i, acc, ParamVol(acc.layers, pglist[i]),
                   FMul(o.L1Decay, pglist[i].L1DecayMul),
                   FMul(o.L2Decay, pglist[i].L2DecayMul))

TrainingResult(costLoss, l1DecayLoss, l2DecayLoss) ==
    [Loss |-> FAdd(FAdd(costLoss, l1DecayLoss), l2DecayLoss), CostLoss |-> costLoss,
     L1DecayLoss |-> l1DecayLoss, L2DecayLoss |-> l2DecayLoss]

\* what a call to Train leaves behind: b is what Net.Backward did, r the random
\* stream after Net.Forward
Trained(b, r, pan, msg, k2, g2, x2, ls, upd, res) ==
    [panic |-> pan, msg |-> msg, k |-> k2, gsum |-> g2, xsum |-> x2, layers |-> ls,
     vols |-> b.vols, rng |-> r, updated |-> upd, trace |-> b.trace, ret |-> b.loss,
     result |-> res]

\* Train after the update loop, u being what the loop did
trainUpdated(kk, r, b, u) ==
    Trained(b, r, FALSE, "", kk + 1, u.gsum, u.xsum, u.layers, TRUE,
            TrainingResult(b.loss, u.l1DecayLoss, u.l2DecayLoss))

\* Train with the accumulators a in place
trainAllocated(o, kk, r, b, pglist, a) ==
    trainUpdated(kk, r, b,
                 updateFrom(o, kk + 1, pglist, 1,
                            [layers |-> b.layers, gsum |-> a.gsum, xsum |-> a.xsum,
                             l2DecayLoss |-> Zero, l1DecayLoss |-> Zero]))

\* Train at the end of a batch, pl being what Net.ParamsAndGrads returned
trainBatch(o, kk, gs, xs, r, b, pl) ==
    IF pl.panic THEN Trained(b, r, TRUE, "TODO", kk + 1, gs, xs, b.layers, FALSE, <<>>)
    ELSE trainAllocated(o, kk, r, b, pl.list, Allocate(o, b.layers, pl.list, gs, xs))

\* Train after costLoss := t.Net.Backward(y)
trainBackwarded(o, kk, gs, xs, r, b) ==
    IF b.panic THEN Trained(b, r, TRUE, b.msg, kk, gs, xs, b.layers, FALSE, <<>>)
    ELSE IF o.BatchSize = 0
    THEN Trained(b, r, TRUE, "runtime error: integer divide by zero", kk + 1, gs, xs,
                 b.layers, FALSE, <<>>)
    ELSE IF ~batchDone(kk + 1, o)
    THEN Trained(b, r, FALSE, "", kk + 1, gs, xs, b.layers, FALSE,
                 TrainingResult(b.loss, Zero, Zero))
    ELSE trainBatch(o, kk, gs, xs, r, b, Net_ParamsAndGrads(b.layers))

\* Train after t.Net.Forward(x, true)
trainForwarded(o, kk, gs, xs, y, f) ==
    trainBackwarded(o, kk, gs, xs, f.rng, Net_Backward(f.layers, f.vols, y))

\* (t *Trainer) Train(x, y); kk, gs, xs are t.k, t.gsum, t.xsum before the call
Trainer_Train(o, kk, gs, xs, layers, r, x, y) ==
    trainForwarded(o, kk, gs, xs, y, Net_Forward(layers, x, TRUE, r))

----------------------------------------------------------------------------
(* the state after construction of a Net and of a Trainer *)

DefaultTrainerOptions ==
    [LearningRate |-> <<1, 100>>, L1Decay |-> Zero, L2Decay |-> Zero, BatchSize |-> 1,
     Method |-> MethodSGD, Momentum |-> <<9, 10>>, Ro |-> <<95, 100>>, Eps |-> <<1, 100000000>>,
     Beta1 |-> <<9, 10>>, Beta2 |-> <<999, 1000>>]

NoOp == [op |-> "none", panic |-> FALSE, msg |-> "", updated |-> FALSE, trace |-> <<>>,
         y |-> LossData(0, Zero), ret |-> Zero, result |-> <<>>, in |-> 0, out |-> 0,
         prev |-> <<>>, data |-> <<>>, net |-> <<>>, x |-> <<>>]

\* no Window
NilWindow == [v |-> <<>>, index |-> 0, size |-> 0, minsize |-> 0]

InitFields(ds, r, o) ==
    /\ defs = ds
    /\ made = "new"
    /\ panicMsg = ""
    /\ desugared = <<>>
    /\ Layers = <<>>
    /\ rng = r
    /\ vols = <<>>
    /\ opts = o
    /\ k = 0
    /\ gsum = <<>>
    /\ xsum = <<>>
    /\ calls = 0
    /\ updates = 0
    /\ ops = 0
    /\ rawsum = <<>>
    /\ last = NoOp

InitState(ds, r, o) ==
    /\ window = NilWindow
    /\ added = <<>>
    /\ InitFields(ds, r, o)

\* the gradient buffers of the parameters, per layer: its filters' and its biases'
ParamGrads(layers) ==
    Tuple([i \in 1..Len(layers) |->
        [f |-> Tuple([j \in 1..Len(layers[i].filters) |-> layers[i].filters[j].Dw]),
         b |-> layers[i].biases.Dw]])

ZeroGrads(layers) ==
    Tuple([i \in 1..Len(layers) |->
        [f |-> Tuple([j \in 1..Len(layers[i].filters) |-> Zeros(Len(layers[i].filters[j].Dw))]),
         b |-> Zeros(Len(layers[i].biases.Dw))]])

\* what one backward pass contributes to each parameter gradient, read off the
\* activations it left behind: input value times output gradient for a weight,
\* the output gradient for a bias; nothing for a layer whose Backward did not run
RawGradients(layers, vs, trace) ==
    Tuple([i \in 1..Len(layers) |->
        LET l == layers[i]
            ran == \E n \in 1..Len(trace) : trace[n] = <<"Backward", i - 1>>
        IN  [f |-> Tuple([j \in 1..Len(l.filters) |->
                       Tuple([d \in 1..Len(l.filters[j].Dw) |->
                           IF ran THEN FMul(vs[l.inAct].W[d], vs[l.outAct].Dw[j])
                           ELSE Zero])]),
             b |-> Tuple([j \in 1..Len(l.biases.Dw) |->
                       IF ran THEN vs[l.outAct].Dw[j] ELSE Zero])]])

AddGrads(a, b) ==
    Tuple([i \in 1..Len(a) |->
        [f |-> Tuple([j \in 1..Len(a[i].f) |->
                   Tuple([d \in 1..Len(a[i].f[j]) |-> FAdd(a[i].f[j][d], b[i].f[j][d])])]),
         b |-> Tuple([j \in 1..Len(a[i].b) |-> FAdd(a[i].b[j], b[i].b[j])])]])

\* net.MakeLayers(defs, r) on a new Net
Made(m) ==
    /\ made' = IF m.panic THEN "panic" ELSE "built"
    /\ panicMsg' = m.msg
    /\ desugared' = m.desugared
    /\ Layers' = m.layers
    /\ rng' = m.rng
    /\ rawsum' = ZeroGrads(m.layers)

MakeLayersAct ==
    /\ made = "new"
    /\ Made(MakeLayers(defs, Layers, rng))
    /\ UNCHANGED <<window, added, defs, vols, opts, k, gsum, xsum, calls, updates, ops, last>>

\* the input tensors and labels tried on a built network
InputSize(layers) == OutSx(layers[1]) * OutSy(layers[1]) * OutDepth(layers[1])

Inputs(layers) ==
    LET l == layers[1]
    IN  {[NewVol(OutSx(l), OutSy(l), OutDepth(l), Zero) EXCEPT !.W = w] :
            w \in {Tuple([i \in 1..InputSize(layers) |-> One]),
                   Tuple([i \in 1..InputSize(layers) |-> Int2F(IF i = 1 THEN -1 ELSE 2)])}}

Labels(layers) ==
    LET l == layers[Len(layers)]
    IN  CASE l.type = LayerRegression ->
               {LossData(0, Zero), LossData(l.numInputs - 1, One)}
          [] l.type = LayerSVM -> {LossData(0, Zero), LossData(l.numInputs - 1, Zero)}
          [] l.type = LayerSoftmax -> {LossData(0, Zero), LossData(l.outDepth - 1, Zero)}
          [] OTHER -> {LossData(0, Zero)}

\* the training samples: the first input with the first label, the second with the second
Samples(layers) ==
    {<<x, y>> \in Inputs(layers) \X Labels(layers) : (x.W[1] = One) = (y.Dim = 0)}

MaxCalls == 3

\* trainer.Train(x, y)
TrainedWith(y, t) ==
    /\ k' = t.k
    /\ gsum' = t.gsum
    /\ xsum' = t.xsum
    /\ Layers' = t.layers
    /\ vols' = t.vols
    /\ rng' = t.rng
    /\ calls' = calls + 1
    /\ updates' = IF t.updated THEN updates + 1 ELSE updates
    /\ rawsum' = IF t.updated THEN ZeroGrads(t.layers)
                  ELSE AddGrads(rawsum, RawGradients(t.layers, t.vols, t.trace))
    /\ last' = [op |-> "Train", panic |-> t.panic, msg |-> t.msg, updated |-> t.updated,
                trace |-> t.trace, y |-> y, ret |-> t.ret, result |-> t.result,
                in |-> 1, out |-> 0, prev |-> <<>>, data |-> <<>>, net |-> <<>>,
                x |-> <<>>]

TrainAct ==
    /\ made = "built"
    /\ calls < MaxCalls
    /\ \E s \in Samples(Layers) :
          TrainedWith(s[2], Trainer_Train(opts, k, gsum, xsum, Layers, rng, s[1], s[2]))
    /\ UNCHANGED <<window, added, defs, made, panicMsg, desugared, opts, ops>>

MaxOps == 3

\* the inputs tried on a network driven from outside a trainer: those, all zeros, and
\* inputs of 200, whose activations lie far apart
NetInputs(layers) ==
    Inputs(layers)
    \cup {NewVol(OutSx(layers[1]), OutSy(layers[1]), OutDepth(layers[1]), c) :
             c \in {Zero, Int2F(200)}}

Forwarded(f) ==
    /\ Layers' = f.layers
    /\ vols' = f.vols
    /\ rng' = f.rng
    /\ last' = [NoOp EXCEPT !.op = "Forward", !.in = 1, !.out = f.out]

\* net.Forward(x, false) from outside the trainer
ForwardAct ==
    /\ made = "built"
    /\ ops < MaxOps
    /\ \E x \in NetInputs(Layers) : Forwarded(Net_Forward(Layers, x, FALSE, rng))
    /\ ops' = ops + 1
    /\ UNCHANGED <<window, added, defs, made, panicMsg, desugared, opts, k, gsum, xsum, calls, updates,
                   rawsum>>

\* the gradient the last layer's input holds (nothing if the layer has no input yet)
LossInputGrad(layers, vs) ==
    IF layers[Len(layers)].inAct = 0 THEN <<>> ELSE vs[layers[Len(layers)].inAct].Dw

Backwarded(y, b) ==
    /\ Layers' = b.layers
    /\ vols' = b.vols
    /\ rawsum' = AddGrads(rawsum, RawGradients(b.layers, b.vols, b.trace))
    /\ last' = [NoOp EXCEPT !.op = "Backward", !.panic = b.panic, !.msg = b.msg,
                            !.trace = b.trace, !.y = y, !.ret = b.loss,
                            !.prev = LossInputGrad(Layers, vols)]

\* net.Backward(y) after a Forward
BackwardAct ==
    /\ made = "built"
    /\ ops < MaxOps
    /\ vols # <<>>
    /\ \E y \in Labels(Layers) : Backwarded(y, Net_Backward(Layers, vols, y))
    /\ ops' = ops + 1
    /\ UNCHANGED <<window, added, defs, made, panicMsg, desugared, rng, opts, k, gsum, xsum, calls,
                   updates>>

CostLossDone(x, y, c) ==
    /\ Layers' = c.layers
    /\ vols' = c.vols
    /\ rng' = c.rng
    /\ last' = [NoOp EXCEPT !.op = "CostLoss", !.panic = c.panic, !.msg = c.msg, !.y = y,
                            !.ret = c.loss, !.in = 1, !.x = x]

\* net.CostLoss(x, y), on a network alone or between two calls of its trainer
CostLossAct ==
    /\ made = "built"
    /\ ops < MaxOps
    /\ \E s \in Samples(Layers) :
          CostLossDone(s[1], s[2], Net_CostLoss(Layers, s[1], s[2], rng))
    /\ ops' = ops + 1
    /\ UNCHANGED <<window, added, defs, made, panicMsg, desugared, opts, k, gsum, xsum, calls, updates,
                   rawsum>>

Listed(pl) ==
    last' = [NoOp EXCEPT !.op = "ParamsAndGrads", !.panic = pl.panic,
                         !.msg = IF pl.panic THEN "TODO" ELSE "", !.result = pl.list]

\* net.ParamsAndGrads() from outside the trainer
ParamsAndGradsAct ==
    /\ made = "built"
    /\ ops < MaxOps
    /\ Listed(Net_ParamsAndGrads(Layers))
    /\ ops' = ops + 1
    /\ UNCHANGED <<window, added, defs, made, panicMsg, desugared, Layers, rng, vols, opts, k, gsum, xsum,
                   calls, updates, rawsum>>

PredictionDone(pr) ==
    last' = [NoOp EXCEPT !.op = "Prediction", !.panic = pr.panic, !.msg = pr.msg,
                         !.result = pr.maxi]

\* net.Prediction()
PredictionAct ==
    /\ made = "built"
    /\ ops < MaxOps
    /\ PredictionDone(Net_Prediction(Layers, vols))
    /\ ops' = ops + 1
    /\ UNCHANGED <<window, added, defs, made, panicMsg, desugared, Layers, rng, vols, opts, k, gsum, xsum,
                   calls, updates, rawsum>>

\* one layer on its own, driven as the package's own code drives it: fromDef, then
\* Forward on a Vol the caller made, then Backward once the caller has set the
\* output's gradient
LayerMade(b) ==
    Made([panic |-> b.panic, msg |-> b.msg, desugared |-> defs, layers |-> <<b.layer>>,
          rng |-> b.rng])

\* l := &XLayer{}; l.fromDef(def, r)
FromDefAct ==
    /\ made = "new"
    /\ LayerMade(fromDef(defs[1], rng))
    /\ UNCHANGED <<window, added, defs, vols, opts, k, gsum, xsum, calls, updates, ops, last>>

\* the number of elements of the Vol a layer built from def is given
LayerInSx(def) ==
    IF def.Type = LayerInput THEN (IF def.OutSx = 0 THEN 1 ELSE def.OutSx) ELSE def.InSx
LayerInSy(def) ==
    IF def.Type = LayerInput THEN (IF def.OutSy = 0 THEN 1 ELSE def.OutSy) ELSE def.InSy
LayerInDepth(def) == IF def.Type = LayerInput THEN def.OutDepth ELSE def.InDepth

\* the values tried: all equal, rising, falling below zero, and for a pooling
\* layer also values below any a picture holds
Patterns(def, n) ==
    {Tuple([i \in 1..n |-> One]), Tuple([i \in 1..n |-> Int2F(i)]),
     Tuple([i \in 1..n |-> Int2F(1 - i)])}
    \cup (IF def.Type = LayerPool THEN {Tuple([i \in 1..n |-> Int2F(-100000)])} ELSE {})

LayerInputs(def) ==
    {[NewVol(LayerInSx(def), LayerInSy(def), LayerInDepth(def), Zero) EXCEPT !.W = w] :
        w \in Patterns(def, LayerInSx(def) * LayerInSy(def) * LayerInDepth(def))}

\* the output gradients tried: all ones, and rising
OutGrads(n) == {Tuple([i \in 1..n |-> One]), Tuple([i \in 1..n |-> Int2F(i)])}

MaxLayerOps == 3

LayerForwarded(f) ==
    /\ Layers' = <<f.layer>>
    /\ vols' = f.vols
    /\ rng' = f.rng
    /\ last' = [NoOp EXCEPT !.op = "LayerForward", !.in = 1, !.out = f.out]

\* l.Forward(x, isTraining)
LayerForwardAct ==
    /\ made = "built"
    /\ ops < MaxLayerOps
    /\ \E x \in LayerInputs(defs[1]) : \E t \in BOOLEAN :
          LayerForwarded(Layer_Forward(Layers[1], <<x>>, 1, t, rng))
    /\ ops' = ops + 1
    /\ UNCHANGED <<window, added, defs, made, panicMsg, desugared, opts, k, gsum, xsum, calls, updates,
                   rawsum>>

LayerBackwarded(g, b) ==
    /\ Layers' = <<b.layer>>
    /\ vols' = b.vols
    /\ last' = [NoOp EXCEPT !.op = "LayerBackward", !.panic = b.panic, !.msg = b.msg,
                            !.in = Layers[1].inAct, !.out = Layers[1].outAct, !.prev = g]

\* l.outAct.Dw = g; l.Backward()
LayerBackwardAct ==
    /\ made = "built"
    /\ ops < MaxLayerOps
    /\ Layers[1].outAct # 0
    /\ \E g \in OutGrads(Len(vols[Layers[1].outAct].Dw)) :
          LayerBackwarded(g, Layer_Backward(Layers[1],
                                            [vols EXCEPT ![Layers[1].outAct].Dw = g]))
    /\ ops' = ops + 1
    /\ UNCHANGED <<window, added, defs, made, panicMsg, desugared, rng, opts, k, gsum, xsum, calls,
                   updates, rawsum>>

\* the labels tried on a loss layer: every class or dimension, with targets 0, 1, -2
LayerLabels(l) ==
    {LossData(d, t) :
        d \in 0..((IF l.type = LayerSoftmax THEN l.outDepth ELSE l.numInputs) - 1),
        t \in {Zero, One, Int2F(-2)}}

LayerBackwardLossDone(y, bl) ==
    /\ vols' = bl.vols
    /\ last' = [NoOp EXCEPT !.op = "LayerBackwardLoss", !.panic = bl.panic, !.msg = bl.msg,
                            !.y = y, !.ret = bl.loss, !.in = Layers[1].inAct,
                            !.out = Layers[1].outAct,
                            !.prev = LossInputGrad(Layers, vols)]

\* l.BackwardLoss(y) on a loss layer, after a Forward
LayerBackwardLossAct ==
    /\ made = "built"
    /\ ops < MaxLayerOps
    /\ Layers[1].type \in LossTypes
    /\ vols # <<>>
    /\ \E y \in LayerLabels(Layers[1]) :
          LayerBackwardLossDone(y, Layer_BackwardLoss(Layers[1], vols, y))
    /\ ops' = ops + 1
    /\ UNCHANGED <<window, added, defs, made, panicMsg, desugared, Layers, rng, opts, k, gsum, xsum, calls,
                   updates, rawsum>>

----------------------------------------------------------------------------
(* serialization: a JSON object is a function from member names to values, a JSON
   array a sequence, a JSON number the number it denotes *)

\* LayerType.String(): the constants' line comments
LayerType_String(t) ==
    CASE t = LayerInput -> "input"
      [] t = LayerRelu -> "relu"
      [] t = LayerSigmoid -> "sigmoid"
      [] t = LayerTanh -> "tanh"
      [] t = LayerDropout -> "dropout"
      [] t = LayerConv -> "conv"
      [] t = LayerPool -> "pool"
      [] t = LayerLRN -> "lrn"
      [] t = LayerSoftmax -> "softmax"
      [] t = LayerRegression -> "regression"
      [] t = LayerFC -> "fc"
      [] t = LayerMaxout -> "maxout"
      [] t = LayerSVM -> "svm"
      [] OTHER -> "LayerType(?)"

\* what json.Unmarshal leaves in a field of data: the object's member of the field's
\* name, and the value the field had before the call where the object has no such
\* member; members no field names are skipped
jsonField(b, key, preset) == IF key \in DOMAIN b THEN b[key] ELSE preset

\* the encoding of a nil pointer
JsonNull == [null |-> TRUE]

\* a *Vol has no MarshalJSON: its exported fields under their tags, Dw left out
Vol_MarshalJSON(v) ==
    IF v = NilVol THEN JsonNull
    ELSE [sx |-> v.Sx, sy |-> v.Sy, depth |-> v.Depth, w |-> v.W]

\* W and Dw are made for the decoded shape; copy fills W as far as both reach
Vol_UnmarshalJSON(b) ==
    LET sx == jsonField(b, "sx", 0)
        sy == jsonField(b, "sy", 0)
        depth == jsonField(b, "depth", 0)
        w == jsonField(b, "w", <<>>)
    IN  IF "null" \in DOMAIN b THEN NilVol
        ELSE [Sx |-> sx, Sy |-> sy, Depth |-> depth,
              W |-> Tuple([i \in 1..(sx * sy * depth) |-> IF i <= Len(w) THEN w[i] ELSE Zero]),
              Dw |-> Tuple([i \in 1..(sx * sy * depth) |-> Zero])]

\* the members every layer writes
Shape_MarshalJSON(l, outDepth, outSx, outSy) ==
    [out_depth |-> outDepth, out_sx |-> outSx, out_sy |-> outSy,
     layer_type |-> LayerType_String(l.type)]

\* SoftmaxLayer, RegressionLayer and SVMLayer write their input count twice
Loss_MarshalJSON(l, n) ==
    [out_depth |-> n, out_sx |-> 1, out_sy |-> 1, layer_type |-> LayerType_String(l.type),
     num_inputs |-> n]

FullyConnLayer_MarshalJSON(l) ==
    [out_depth |-> l.outDepth, out_sx |-> 1, out_sy |-> 1,
     layer_type |-> LayerType_String(LayerFC), num_inputs |-> l.numInputs,
     l1_decay_mul |-> l.l1DecayMul, l2_decay_mul |-> l.l2DecayMul,
     filters |-> Tuple([i \in 1..Len(l.filters) |-> Vol_MarshalJSON(l.filters[i])]),
     biases |-> Vol_MarshalJSON(l.biases)]

PoolLayer_MarshalJSON(l) ==
    [sx |-> l.sx, sy |-> l.sy, stride |-> l.stride, in_depth |-> l.inDepth,
     out_depth |-> l.inDepth, out_sx |-> l.outSx, out_sy |-> l.outSy,
     layer_type |-> LayerType_String(LayerPool), pad |-> l.pad]

MaxoutLayer_MarshalJSON(l) ==
    [out_depth |-> l.outDepth, out_sx |-> l.outSx, out_sy |-> l.outSy,
     layer_type |-> LayerType_String(LayerMaxout), group_size |-> l.groupSize]

DropoutLayer_MarshalJSON(l) ==
    [out_depth |-> l.outDepth, out_sx |-> l.outSx, out_sy |-> l.outSy,
     layer_type |-> LayerType_String(LayerDropout), drop_prob |-> l.dropProb]

LocalResponseNormalizationLayer_MarshalJSON(l) ==
    [k |-> l.k, n |-> l.n, alpha |-> l.alpha, beta |-> l.beta, out_sx |-> l.outSx,
     out_sy |-> l.outSy, out_depth |-> l.outDepth, layer_type |-> LayerType_String(LayerLRN)]

Layer_MarshalJSON(l) ==
    CASE l.type \in {LayerInput, LayerRelu, LayerSigmoid, LayerTanh} ->
            Shape_MarshalJSON(l, l.outDepth, l.outSx, l.outSy)
      [] l.type = LayerSoftmax -> Loss_MarshalJSON(l, l.outDepth)
      [] l.type \in {LayerRegression, LayerSVM} -> Loss_MarshalJSON(l, l.numInputs)
      [] l.type = LayerFC -> FullyConnLayer_MarshalJSON(l)
      [] l.type = LayerPool -> PoolLayer_MarshalJSON(l)
      [] l.type = LayerMaxout -> MaxoutLayer_MarshalJSON(l)
      [] l.type = LayerDropout -> DropoutLayer_MarshalJSON(l)
      [] l.type = LayerLRN -> LocalResponseNormalizationLayer_MarshalJSON(l)

\* Net has no MarshalJSON: its one field under its tag, each layer by its MarshalJSON
Net_MarshalJSON(layers) ==
    [layers |-> Tuple([i \in 1..Len(layers) |-> Layer_MarshalJSON(layers[i])])]

\* InputLayer, ReluLayer, SigmoidLayer, TanhLayer
Shape_UnmarshalJSON(l, b) ==
    [l EXCEPT !.outDepth = jsonField(b, "out_depth", 0),
              !.outSx = jsonField(b, "out_sx", 0),
              !.outSy = jsonField(b, "out_sy", 0)]

SoftmaxLayer_UnmarshalJSON(l, b) == [l EXCEPT !.outDepth = jsonField(b, "out_depth", 0)]

\* RegressionLayer, SVMLayer
LossLayer_UnmarshalJSON(l, b) == [l EXCEPT !.numInputs = jsonField(b, "num_inputs", 0)]

\* the decay multipliers are preset to 1.0 before decoding
FullyConnLayer_UnmarshalJSON(l, b) ==
    [l EXCEPT !.outDepth = jsonField(b, "out_depth", 0),
              !.numInputs = jsonField(b, "num_inputs", 0),
              !.l1DecayMul = jsonField(b, "l1_decay_mul", One),
              !.l2DecayMul = jsonField(b, "l2_decay_mul", One),
              !.filters = Tuple([i \in 1..Len(jsonField(b, "filters", <<>>)) |->
                                    Vol_UnmarshalJSON(b["filters"][i])]),
              !.biases = Vol_UnmarshalJSON(jsonField(b, "biases", JsonNull))]

\* inSx and inSy are not written and not read; the switch tables are made anew
PoolLayer_UnmarshalJSON(l, b) ==
    LET n == jsonField(b, "out_sx", 0) * jsonField(b, "out_sy", 0)
                 * jsonField(b, "in_depth", 0)
    IN  [l EXCEPT !.outSx = jsonField(b, "out_sx", 0),
                  !.outSy = jsonField(b, "out_sy", 0),
                  !.sx = jsonField(b, "sx", 0),
                  !.sy = jsonField(b, "sy", 0),
                  !.stride = jsonField(b, "stride", 0),
                  !.inDepth = jsonField(b, "in_depth", 0),
                  !.pad = jsonField(b, "pad", 0),
                  !.switchx = Tuple([i \in 1..n |-> 0]),
                  !.switchy = Tuple([i \in 1..n |-> 0])]

MaxoutLayer_UnmarshalJSON(l, b) ==
    LET n == jsonField(b, "out_sx", 0) * jsonField(b, "out_sy", 0)
                 * jsonField(b, "out_depth", 0)
    IN  [l EXCEPT !.outDepth = jsonField(b, "out_depth", 0),
                  !.outSx = jsonField(b, "out_sx", 0),
                  !.outSy = jsonField(b, "out_sy", 0),
                  !.groupSize = jsonField(b, "group_size", 0),
                  !.switches = Tuple([i \in 1..n |-> 0])]

\* dropped and rand are left as the new layer has them: nil
DropoutLayer_UnmarshalJSON(l, b) ==
    [l EXCEPT !.outDepth = jsonField(b, "out_depth", 0),
              !.outSx = jsonField(b, "out_sx", 0),
              !.outSy = jsonField(b, "out_sy", 0),
              !.dropProb = jsonField(b, "drop_prob", Zero)]

LocalResponseNormalizationLayer_UnmarshalJSON(l, b) ==
    [l EXCEPT !.k = jsonField(b, "k", Zero), !.n = jsonField(b, "n", 0),
              !.alpha = jsonField(b, "alpha", Zero), !.beta = jsonField(b, "beta", Zero),
              !.outSx = jsonField(b, "out_sx", 0), !.outSy = jsonField(b, "out_sy", 0),
              !.outDepth = jsonField(b, "out_depth", 0)]

Layer_UnmarshalJSON(l, b) ==
    CASE l.type \in {LayerInput, LayerRelu, LayerSigmoid, LayerTanh} -> Shape_UnmarshalJSON(l, b)
      [] l.type = LayerSoftmax -> SoftmaxLayer_UnmarshalJSON(l, b)
      [] l.type \in {LayerRegression, LayerSVM} -> LossLayer_UnmarshalJSON(l, b)
      [] l.type = LayerFC -> FullyConnLayer_UnmarshalJSON(l, b)
      [] l.type = LayerPool -> PoolLayer_UnmarshalJSON(l, b)
      [] l.type = LayerMaxout -> MaxoutLayer_UnmarshalJSON(l, b)
      [] l.type = LayerDropout -> DropoutLayer_UnmarshalJSON(l, b)
      [] l.type = LayerLRN -> LocalResponseNormalizationLayer_UnmarshalJSON(l, b)

\* switch t.LayerType: the type whose name the record carries, 0 for the default case
TypeNamed(name) ==
    IF \E t \in KnownTypes : LayerType_String(t) = name
    THEN CHOOSE t \in KnownTypes : LayerType_String(t) = name
    ELSE 0

\* what the loop of Net.UnmarshalJSON hands to l.UnmarshalJSON for the record lj of
\* the network's bytes b: b
layerBytes(b, lj) == b

\* the loop of Net.UnmarshalJSON from record i on, ls the layers appended so far
RECURSIVE unmarshalFrom(_, _, _)
unmarshalFrom(b, i, ls) ==
    IF i > Len(jsonField(b, "layers", <<>>)) THEN [err |-> "", layers |-> ls]
    ELSE IF TypeNamed(jsonField(b["layers"][i], "layer_type", "")) = 0
    THEN [err |-> "convnet: unknown layer type", layers |-> ls]
    ELSE unmarshalFrom(b, i + 1,
             Append(ls, Layer_UnmarshalJSON(
                            [NilLayer EXCEPT !.type =
                                TypeNamed(jsonField(b["layers"][i], "layer_type", ""))],
                            layerBytes(b, b["layers"][i]))))

Net_UnmarshalJSON(b) == unmarshalFrom(b, 1, <<>>)

Restored(b, u) ==
    last' = [NoOp EXCEPT !.op = "Unmarshal", !.msg = u.err, !.data = b, !.net = u.layers]

\* b, _ := json.Marshal(net); var restored Net; json.Unmarshal(b, &restored)
UnmarshalAct ==
    /\ made = "built"
    /\ ops < MaxOps
    /\ Restored(Net_MarshalJSON(Layers), Net_UnmarshalJSON(Net_MarshalJSON(Layers)))
    /\ ops' = ops + 1
    /\ UNCHANGED <<window, added, defs, made, panicMsg, desugared, Layers, rng, vols, opts, k, gsum, xsum,
                   calls, updates, rawsum>>

----------------------------------------------------------------------------
(* construction: the definition chains tried *)

MaxDefs == 3
Seeds == {0, 1}

SeqsUpTo(S, n) == UNION {[1..m -> S] : m \in 0..n}

BuildDefs ==
    {[LayerDef EXCEPT !.Type = LayerInput, !.OutDepth = 2],
     [LayerDef EXCEPT !.Type = LayerInput, !.OutSx = 2, !.OutSy = 2, !.OutDepth = 2],
     [LayerDef EXCEPT !.Type = LayerFC, !.NumNeurons = 2, !.Activation = LayerRelu],
     [LayerDef EXCEPT !.Type = LayerFC, !.NumNeurons = 2, !.Activation = LayerTanh,
                      !.DropProb = <<1, 2>>],
     [LayerDef EXCEPT !.Type = LayerFC, !.NumNeurons = 2, !.Activation = LayerMaxout],
     [LayerDef EXCEPT !.Type = LayerFC, !.NumNeurons = 1, !.Activation = LayerPool],
     [LayerDef EXCEPT !.Type = LayerSigmoid],
     [LayerDef EXCEPT !.Type = LayerSoftmax, !.NumClasses = 2],
     [LayerDef EXCEPT !.Type = LayerRegression, !.NumNeurons = 1],
     [LayerDef EXCEPT !.Type = LayerSVM, !.NumClasses = 2],
     [LayerDef EXCEPT !.Type = LayerPool, !.Sx = 2],
     [LayerDef EXCEPT !.Type = LayerLRN, !.N = 3],
     [LayerDef EXCEPT !.Type = LayerLRN, !.N = 2],
     [LayerDef EXCEPT !.Type = LayerDropout, !.DropProb = <<1, 2>>],
     [LayerDef EXCEPT !.Type = 14]}

\* the network of createTestNet
TestNetDefs ==
    <<[LayerDef EXCEPT !.Type = LayerInput, !.OutSx = 1, !.OutSy = 1, !.OutDepth = 2],
      [LayerDef EXCEPT !.Type = LayerFC, !.NumNeurons = 5, !.Activation = LayerTanh],
      [LayerDef EXCEPT !.Type = LayerFC, !.NumNeurons = 5, !.Activation = LayerTanh],
      [LayerDef EXCEPT !.Type = LayerSoftmax, !.NumClasses = 3]>>

InitMake ==
    \E ds \in SeqsUpTo(BuildDefs, MaxDefs) \cup {TestNetDefs} :
        \E r \in Seeds : InitState(ds, r, DefaultTrainerOptions)

NextMake == MakeLayersAct

SpecMake == InitMake /\ [][NextMake]_vars

----------------------------------------------------------------------------
(* training: the networks and trainer options tried *)

Opt(method, momentum, batch, decay) ==
    [LearningRate |-> <<1, 2>>, L1Decay |-> decay, L2Decay |-> decay, BatchSize |-> batch,
     Method |-> method, Momentum |-> momentum, Ro |-> <<1, 2>>, Eps |-> <<1, 4>>,
     Beta1 |-> <<1, 2>>, Beta2 |-> <<1, 2>>]

TrainOpts ==
    {Opt(MethodSGD, Zero, 1, Zero), Opt(MethodSGD, Zero, 2, Zero),
     Opt(MethodSGD, Zero, 3, Zero), Opt(MethodSGD, Zero, 0, Zero),
     Opt(MethodSGD, <<1, 2>>, 1, Zero), Opt(MethodSGD, <<1, 2>>, 2, <<1, 4>>),
     Opt(MethodAdam, Zero, 2, Zero), Opt(MethodADAGrad, Zero, 1, Zero),
     Opt(MethodADADelta, Zero, 1, Zero), Opt(MethodWindowGrad, Zero, 2, Zero),
     Opt(MethodNetsterov, <<1, 2>>, 1, Zero), Opt(6, Zero, 1, Zero),
     Opt(6, <<1, 2>>, 2, Zero)}

TrainNets ==
    {<<[LayerDef EXCEPT !.Type = LayerInput, !.OutDepth = 2],
       [LayerDef EXCEPT !.Type = LayerFC, !.NumNeurons = 2, !.Activation = LayerRelu,
                        !.L1DecayMul = One],
       [LayerDef EXCEPT !.Type = LayerRegression, !.NumNeurons = 1]>>,
     <<[LayerDef EXCEPT !.Type = LayerInput, !.OutDepth = 2],
       [LayerDef EXCEPT !.Type = LayerSoftmax, !.NumClasses = 2]>>,
     <<[LayerDef EXCEPT !.Type = LayerInput, !.OutDepth = 1],
       [LayerDef EXCEPT !.Type = LayerFC, !.NumNeurons = 2, !.Activation = LayerSigmoid],
       [LayerDef EXCEPT !.Type = LayerSVM, !.NumClasses = 2]>>,
     <<[LayerDef EXCEPT !.Type = LayerInput, !.OutDepth = 1],
       [LayerDef EXCEPT !.Type = LayerFC, !.NumNeurons = 2, !.Activation = LayerTanh,
                        !.DropProb = <<1, 2>>],
       [LayerDef EXCEPT !.Type = LayerSVM, !.NumClasses = 2]>>,
     <<[LayerDef EXCEPT !.Type = LayerInput, !.OutDepth = 2],
       [LayerDef EXCEPT !.Type = LayerFC, !.NumNeurons = 1]>>}

\* the network and the trainer options of the package's gradient check
GradientNet ==
    <<[LayerDef EXCEPT !.Type = LayerInput, !.OutDepth = 2],
      [LayerDef EXCEPT !.Type = LayerFC, !.NumNeurons = 5, !.Activation = LayerTanh],
      [LayerDef EXCEPT !.Type = LayerFC, !.NumNeurons = 5, !.Activation = LayerTanh],
      [LayerDef EXCEPT !.Type = LayerSoftmax, !.NumClasses = 3]>>

GradientOpts ==
    [DefaultTrainerOptions EXCEPT !.LearningRate = <<1, 10000>>, !.Momentum = Zero,
                                  !.BatchSize = 1, !.L2Decay = Zero]

InitTrain ==
    \/ \E ds \in TrainNets : \E r \in Seeds : \E o \in TrainOpts : InitState(ds, r, o)
    \/ \E r \in Seeds : InitState(GradientNet, r, GradientOpts)

NextTrain == MakeLayersAct \/ TrainAct \/ CostLossAct

SpecTrain == InitTrain /\ [][NextTrain]_vars

\* the network alone: forward and backward passes driven from outside a trainer
NetNets ==
    TrainNets \cup
    {<<[LayerDef EXCEPT !.Type = LayerInput, !.OutDepth = 2],
       [LayerDef EXCEPT !.Type = LayerSVM, !.NumClasses = 3]>>,
     <<[LayerDef EXCEPT !.Type = LayerInput, !.OutSx = 2, !.OutSy = 2, !.OutDepth = 1],
       [LayerDef EXCEPT !.Type = LayerPool, !.Sx = 2, !.Stride = 2],
       [LayerDef EXCEPT !.Type = LayerSVM, !.NumClasses = 2]>>,
     <<[LayerDef EXCEPT !.Type = LayerInput, !.OutDepth = 2],
       [LayerDef EXCEPT !.Type = LayerMaxout, !.GroupSize = 2]>>,
     <<[LayerDef EXCEPT !.Type = LayerInput, !.OutDepth = 1],
       [LayerDef EXCEPT !.Type = LayerSoftmax, !.NumClasses = 1]>>,
     <<[LayerDef EXCEPT !.Type = LayerInput, !.OutDepth = 2],
       [LayerDef EXCEPT !.Type = LayerSoftmax, !.NumClasses = 3]>>}

InitNet ==
    \E ds \in NetNets : \E r \in Seeds : InitState(ds, r, DefaultTrainerOptions)

NextNet ==
    MakeLayersAct \/ ForwardAct \/ BackwardAct \/ ParamsAndGradsAct \/ PredictionAct
        \/ UnmarshalAct \/ CostLossAct

SpecNet == InitNet /\ [][NextNet]_vars

----------------------------------------------------------------------------
(* single layers: the definitions tried *)

MaxIn == 3
MaxInDepth == 2
MaxFilter == 2
MaxStride == 2
MaxPad == 1

PoolDefs ==
    {[LayerDef EXCEPT !.Type = LayerPool, !.InSx = s, !.InSy = s, !.InDepth = d, !.Sx = f,
                      !.Stride = t, !.Pad = p] :
        s \in 1..MaxIn, d \in 1..MaxInDepth, f \in 1..MaxFilter, t \in 1..MaxStride,
        p \in 0..MaxPad}
    \cup {[LayerDef EXCEPT !.Type = LayerPool, !.InSx = 3, !.InSy = 2, !.InDepth = 1,
                           !.Sx = 2, !.Sy = 1, !.Stride = 1],
          [LayerDef EXCEPT !.Type = LayerPool, !.InSx = 2, !.InSy = 3, !.InDepth = 2,
                           !.Sx = 2]}

MaxoutDefs ==
    {[LayerDef EXCEPT !.Type = LayerMaxout, !.InSx = s[1], !.InSy = s[2], !.InDepth = d,
                      !.GroupSize = g] :
        s \in {<<1, 1>>, <<2, 1>>, <<1, 2>>}, d \in {2, 4, 5}, g \in {0, 1, 3}}

OtherDefs ==
    {[LayerDef EXCEPT !.Type = LayerInput, !.OutDepth = 2]}
    \cup {[LayerDef EXCEPT !.Type = t, !.InSx = 1, !.InSy = 1, !.InDepth = 2,
                           !.NumNeurons = 2, !.DropProb = <<1, 2>>] :
             t \in {LayerRelu, LayerSigmoid, LayerTanh, LayerDropout, LayerFC, LayerSoftmax,
                    LayerRegression, LayerSVM}}
    \cup {[LayerDef EXCEPT !.Type = LayerDropout, !.InSx = 1, !.InSy = 1, !.InDepth = 3,
                           !.DropProb = <<1, 4>>]}

\* normalization layers: window sizes 0..MaxWindow over MaxWindow - 1 channels, so that a
\* window is cut at both ends of the channels
MaxWindow == 5

LrnDefs ==
    {[LayerDef EXCEPT !.Type = LayerLRN, !.InSx = s, !.InSy = 1, !.InDepth = MaxWindow - 1,
                      !.N = n, !.K = kk, !.Alpha = Int2F(n), !.Beta = One] :
        s \in {1, 2}, n \in 0..MaxWindow, kk \in {One, Int2F(2)}}

InitLayer ==
    \E def \in PoolDefs \cup MaxoutDefs \cup OtherDefs \cup LrnDefs : \E r \in Seeds :
        InitState(<<def>>, r, DefaultTrainerOptions)

NextLayer ==
    FromDefAct \/ LayerForwardAct \/ LayerBackwardAct \/ LayerBackwardLossAct
        \/ UnmarshalAct

SpecLayer == InitLayer /\ [][NextLayer]_vars

----------------------------------------------------------------------------
(* claims about construction, checked under SpecMake *)

IsLoss(t) == t \in LossTypes
SupportedActivations == {0, LayerRelu, LayerSigmoid, LayerTanh, LayerMaxout}

\* C4: every network MakeLayers builds has an Input layer first and a loss layer
\* last, and a chain whose last definition is no loss layer is rejected.
C4_InputFirstLossLast ==
    /\ made = "built" =>
          /\ Layers[1].type = LayerInput
          /\ IsLoss(Layers[Len(Layers)].type)
    /\ (made # "new" /\ defs # <<>> /\ ~IsLoss(defs[Len(defs)].Type)) => made = "panic"

\* C4, the half the code keeps: a built network starts with its Input layer
C4_InputFirst == made = "built" => Layers[1].type = LayerInput

\* C5: MakeLayers panics, leaving no complete network, on fewer than 2 definitions,
\* a first definition that is not Input, an unknown layer type or an unsupported
\* activation.
Malformed(ds) ==
    \/ Len(ds) < 2
    \/ ds[1].Type # LayerInput
    \/ \E i \in 1..Len(ds) : ds[i].Type \notin KnownTypes
    \/ \E i \in 1..Len(ds) : ds[i].Activation \notin SupportedActivations

C5_MalformedChainPanics ==
    (made # "new" /\ Malformed(defs)) =>
        /\ made = "panic"
        /\ Layers = <<>> \/ \E i \in 1..Len(Layers) : Layers[i] = NilLayer

C5_Witness ==
    /\ made = "panic"
    /\ Len(defs) >= 2 /\ defs[1].Type = LayerInput
    /\ \A i \in 1..Len(defs) : defs[i].Activation \in SupportedActivations
    /\ \E i \in 1..Len(defs) : defs[i].Type \notin KnownTypes
    /\ Layers # <<>> /\ Layers[1].type = LayerInput

\* C6: for every layer kind, MakeLayers builds layer i > 0 with the input shape
\* equal to the output shape layer i-1 reports; it fails only on the documented
\* configuration errors.
ConfigErrors ==
    {"convnet: at least one input layer and one loss layer are required",
     "convnet: first layer must be the input layer, to declare size of inputs",
     "convnet: unsupported activation",
     "convnet: unrecognized layer type",
     "convnet: n should be odd for LRN layer"}

InShape(l) == <<l.def.InSx, l.def.InSy, l.def.InDepth>>
OutShape(l) == <<OutSx(l), OutSy(l), OutDepth(l)>>

C6_ShapesChain ==
    (made # "new" /\ panicMsg \notin ConfigErrors) =>
        /\ made = "built"
        /\ \A i \in 2..Len(Layers) : InShape(Layers[i]) = OutShape(Layers[i - 1])

\* C7: desugar emits, per definition and in order, an FC before a loss definition,
\* the definition, a nonlinearity if Activation is set, a Dropout if DropProb is
\* nonzero on a non-dropout; the built network has that many layers.
HasAct(d) == d.Activation # 0
HasDrop(d) == d.DropProb # Zero /\ d.Type # LayerDropout
Emitted(d) ==
    1 + (IF IsLoss(d.Type) THEN 1 ELSE 0) + (IF HasAct(d) THEN 1 ELSE 0)
      + (IF HasDrop(d) THEN 1 ELSE 0)

RECURSIVE EmittedUpTo(_, _)
EmittedUpTo(ds, n) == IF n = 0 THEN 0 ELSE EmittedUpTo(ds, n - 1) + Emitted(ds[n])

\* where definition i itself stands in the desugared list
PosOf(ds, i) == EmittedUpTo(ds, i - 1) + (IF IsLoss(ds[i].Type) THEN 2 ELSE 1)

\* the fields of a definition other than the bias preference desugar fills in
SameDef(a, b) ==
    [a EXCEPT !.BiasPref = Zero, !.BiasPrefZero = FALSE]
        = [b EXCEPT !.BiasPref = Zero, !.BiasPrefZero = FALSE]

Desugared(ds) ==
    /\ Len(ds) >= 2 /\ ds[1].Type = LayerInput
    /\ \A i \in 1..Len(ds) : ds[i].Activation \in SupportedActivations

C7_DesugarOrderAndCount ==
    (made # "new" /\ Desugared(defs)) =>
        /\ Len(desugared) = EmittedUpTo(defs, Len(defs))
        /\ \A i \in 1..Len(defs) :
              LET d == defs[i]
                  p == PosOf(defs, i)
              IN  /\ SameDef(desugared[p], d)
                  /\ d.Type \in {LayerSoftmax, LayerSVM} =>
                        /\ desugared[p - 1].Type = LayerFC
                        /\ desugared[p - 1].NumNeurons = d.NumClasses
                  /\ d.Type = LayerRegression =>
                        /\ desugared[p - 1].Type = LayerFC
                        /\ desugared[p - 1].NumNeurons = d.NumNeurons
                  /\ HasAct(d) => desugared[p + 1].Type = d.Activation
                  /\ HasDrop(d) =>
                        /\ desugared[p + Emitted(d) - (IF IsLoss(d.Type) THEN 2 ELSE 1)].Type
                              = LayerDropout
                        /\ desugared[p + Emitted(d) - (IF IsLoss(d.Type) THEN 2 ELSE 1)].DropProb
                              = d.DropProb
        /\ made = "built" => Len(Layers) = EmittedUpTo(defs, Len(defs))

\* input, fc+tanh, fc+tanh, softmax gives 7 layers
C7_Witness == made = "built" /\ defs = TestNetDefs /\ Len(Layers) = 7

----------------------------------------------------------------------------
(* claims about training *)

\* C1: with BatchSize B >= 1 the n-th call to Train updates the parameters if
\* and only if n is a multiple of B, so N calls have made floor(N / B) updates.
C1_UpdateEveryBatch ==
    (made = "built" /\ opts.BatchSize >= 1) =>
        /\ updates = calls \div opts.BatchSize
        /\ last.op = "Train" => (last.updated <=> calls % opts.BatchSize = 0)

\* C2: between updates the parameter gradient buffers hold the sum of the raw
\* gradients of every Train call since the last update, and right after a Train
\* call that updates every element of every parameter gradient buffer is 0.
C2_GradientsSumThenZero ==
    made = "built" =>
        /\ ParamGrads(Layers) = rawsum
        /\ (last.op = "Train" /\ last.updated) =>
               \A i \in 1..Len(Layers) :
                   /\ \A j \in 1..Len(Layers[i].filters) :
                          \A d \in 1..Len(Layers[i].filters[j].Dw) :
                              Layers[i].filters[j].Dw[d] = Zero
                   /\ \A j \in 1..Len(Layers[i].biases.Dw) : Layers[i].biases.Dw[j] = Zero

\* two calls have accumulated, without an update, more than the last call's gradients
C2_Witness ==
    /\ made = "built"
    /\ last.op = "Train" /\ ~last.panic /\ ~last.updated
    /\ calls = 2 /\ updates = 0
    /\ ParamGrads(Layers) # ZeroGrads(Layers)
    /\ ParamGrads(Layers) # RawGradients(Layers, vols, last.trace)

\* the length of parameter buffer i of Net.ParamsAndGrads
ParamLen(i) ==
    LET pglist == Net_ParamsAndGrads(Layers).list IN Len(ParamVol(Layers, pglist[i]).W)

NumParams == Len(Net_ParamsAndGrads(Layers).list)

VanillaSGD == opts.Method = MethodSGD /\ ~FLt(Zero, opts.Momentum)

UsesXsum == opts.Method \in {MethodAdam, MethodADADelta}

\* C3 as stated: after the first update gsum[i] has the length of parameter
\* buffer i for every optimizer method, vanilla SGD included, and xsum[i] has it
\* for Adam and Adadelta.
C3_AccumulatorLengths ==
    updates >= 1 =>
        /\ Len(gsum) = NumParams
        /\ \A i \in 1..NumParams :
               /\ Len(gsum[i]) = ParamLen(i)
               /\ UsesXsum => Len(xsum[i]) = ParamLen(i)

C3_Lengths ==
    updates >= 1 =>
        /\ Len(gsum) = NumParams /\ Len(xsum) = NumParams
        /\ \A i \in 1..NumParams :
               /\ Len(gsum[i]) = IF VanillaSGD THEN 0 ELSE ParamLen(i)
               /\ Len(xsum[i]) = IF UsesXsum THEN ParamLen(i) ELSE 0

C3_CarryOver ==
    updates >= 1 =>
        /\ updates' = updates => (gsum' = gsum /\ xsum' = xsum)
        /\ (updates' > updates /\ opts.Method = MethodADAGrad) =>
               \A i \in 1..Len(gsum) : \A j \in 1..Len(gsum[i]) :
                   ~FLt(gsum'[i][j], gsum[i][j])

\* C3, amended: after the first update gsum[i] has the length of parameter
\* buffer i for every method except vanilla SGD (SGD without momentum), which
\* keeps one empty gsum[i] and xsum[i] per buffer; xsum[i] has that length for
\* Adam and Adadelta and is empty otherwise; a later Train call that does not
\* update leaves the accumulators as they are, and one that updates computes
\* them from their previous contents (Adagrad's sums never decrease).
C3_AccumulatorsPersist == [](C3_Lengths) /\ [][C3_CarryOver]_vars

\* a second update has run on accumulators the first update allocated
C3_Witness ==
    /\ made = "built"
    /\ updates >= 2
    /\ ~VanillaSGD
    /\ \E i \in 1..Len(gsum) : \E j \in 1..Len(gsum[i]) : gsum[i][j] # Zero

\* C10: on a built network Train runs to completion and returns a
\* TrainingResult, whatever the input, the label and the TrainerOptions.
C10_TrainCompletes ==
    (made = "built" /\ last.op = "Train") =>
        /\ ~last.panic
        /\ last.result # <<>>

----------------------------------------------------------------------------
(* claims about the backward pass *)

\* C8: Net.Backward calls the last layer's BackwardLoss once and first, then
\* Backward on every other layer once, in decreasing index order down to layer
\* 0, and returns what BackwardLoss returned.
C8_BackwardOrder ==
    (made = "built" /\ last.op = "Backward") =>
        /\ ~last.panic
        /\ last.trace = [i \in 1..Len(Layers) |->
                            IF i = 1 THEN <<"BackwardLoss", Len(Layers) - 1>>
                            ELSE <<"Backward", Len(Layers) - i>>]

\* C9: after a Forward on a network ending in Softmax, BackwardLoss(y) completes,
\* leaves p_i - 1 (i = y.Dim) or p_i (otherwise) in the gradient of the Softmax
\* layer's input, p being the forward output, and returns -log(p[y.Dim]).
C9_SoftmaxGradient ==
    (made = "built" /\ last.op = "Backward"
        /\ Layers[Len(Layers)].type = LayerSoftmax) =>
        /\ ~last.panic
        /\ LET n == Len(Layers)
               p == vols[Layers[n].outAct].W
               dw == vols[Layers[n - 1].outAct].Dw
           IN  /\ \A i \in 1..Len(p) :
                      dw[i] = IF i - 1 = last.y.Dim THEN FSub(p[i], One) ELSE p[i]
               /\ last.ret = FNeg(Log(p[last.y.Dim + 1]))

----------------------------------------------------------------------------
(* claims about the parameter list, the prediction and the SVM loss, checked   *)
(* under SpecNet                                                               *)

\* the entries layer li contributes: for a FullyConnected layer its filters in
\* index order, then its biases with both decay multipliers 0; none otherwise
EntriesOf(li) ==
    IF Layers[li].type # LayerFC THEN <<>>
    ELSE [j \in 1..(Layers[li].outDepth + 1) |->
             IF j <= Layers[li].outDepth
             THEN [layer |-> li, filter |-> j, L1DecayMul |-> Layers[li].l1DecayMul,
                   L2DecayMul |-> Layers[li].l2DecayMul]
             ELSE [layer |-> li, filter |-> 0, L1DecayMul |-> Zero, L2DecayMul |-> Zero]]

RECURSIVE EntriesUpTo(_)
EntriesUpTo(n) == IF n = 0 THEN <<>> ELSE EntriesUpTo(n - 1) \o EntriesOf(n)

\* C11: on a network built by MakeLayers, Net.ParamsAndGrads returns, in layer
\* order, every FullyConnected layer's filter entries followed by its bias entry
\* (decay multipliers 0), and nothing for any other layer
C11_ParamsInLayerOrder ==
    last.op = "ParamsAndGrads" =>
        /\ ~last.panic
        /\ last.result = EntriesUpTo(Len(Layers))

\* the lowest index (0-based) of a largest entry of p
ArgMax(p) ==
    CHOOSE i \in 0..(Len(p) - 1) :
        /\ \A j \in 1..Len(p) : ~FLt(p[i + 1], p[j])
        /\ \A j \in 1..i : FLt(p[j], p[i + 1])

\* C19: Net.Prediction panics when the last layer is not a Softmax layer; after
\* a Forward on a network ending in Softmax it returns the lowest index of the
\* largest output probability
C19_Prediction ==
    last.op = "Prediction" =>
        IF Layers[Len(Layers)].type # LayerSoftmax THEN last.panic
        ELSE Layers[Len(Layers)].outAct # 0 =>
                /\ ~last.panic
                /\ last.result = ArgMax(vols[Layers[Len(Layers)].outAct].W)

\* a Prediction after a Forward that left two equal largest probabilities, and a
\* Prediction that panicked on a network not ending in Softmax
C19_Witness ==
    /\ last.op = "Prediction"
    /\ Layers[Len(Layers)].type = LayerSoftmax
    /\ Layers[Len(Layers)].outAct # 0
    /\ Layers[Len(Layers)].outDepth >= 2
    /\ vols[Layers[Len(Layers)].outAct].W[1] = vols[Layers[Len(Layers)].outAct].W[2]
    /\ last.result = 0

\* the classes (1-based) other than the true one whose score is within the margin
\* of the true class's score
Violators(x, yd) == {i \in 1..Len(x) : i # yd + 1 /\ FLt(Zero, FAdd(FSub(x[i], x[yd + 1]), One))}

RECURSIVE SumInOrder(_, _, _)
SumInOrder(x, yd, i) ==
    IF i = 0 THEN Zero
    ELSE IF i \in Violators(x, yd)
    THEN FAdd(SumInOrder(x, yd, i - 1), FAdd(FSub(x[i], x[yd + 1]), One))
    ELSE SumInOrder(x, yd, i - 1)

SVMInput == vols[Layers[Len(Layers)].inAct]

\* C20: SVMLayer.BackwardLoss sets the input gradient, whatever it held, to +1
\* at each violating class, to minus their number at the true class and to 0
\* elsewhere, and returns the sum of the violations; the gradient sums to 0
C20_SVMGradient ==
    (last.op = "Backward" /\ Layers[Len(Layers)].type = LayerSVM) =>
        /\ ~last.panic
        /\ \A i \in 1..Len(SVMInput.W) :
              SVMInput.Dw[i] =
                  IF i = last.y.Dim + 1
                  THEN Int2F(-Cardinality(Violators(SVMInput.W, last.y.Dim)))
                  ELSE IF i \in Violators(SVMInput.W, last.y.Dim) THEN One ELSE Zero
        /\ last.ret = SumInOrder(SVMInput.W, last.y.Dim, Len(SVMInput.W))
        /\ SeqSum(SVMInput.Dw) = Zero

\* a BackwardLoss on three classes with two violators, on an input whose gradient
\* was not zero before the call
C20_Witness ==
    /\ last.op = "Backward"
    /\ Layers[Len(Layers)].type = LayerSVM
    /\ Cardinality(Violators(SVMInput.W, last.y.Dim)) = 2
    /\ \E i \in 1..Len(last.prev) : last.prev[i] # Zero
    /\ last.prev # SVMInput.Dw

----------------------------------------------------------------------------
(* claims about single layers, checked under SpecLayer *)

\* floor(n / t) for t >= 1
Floor(n, t) == n \div t

PoolBuilt == made = "built" /\ Layers[1].type = LayerPool

\* C12: a PoolLayer built with S >= 1, P >= 0, F >= 1, T >= 1 has output size
\* floor((S + 2P - F)/T) + 1 in each spatial dimension, whatever the sign of
\* S + 2P - F, and switch tables of length outSx*outSy*inDepth
C12_PoolOutSize ==
    PoolBuilt =>
        /\ Layers[1].outSx
              = Floor(Layers[1].inSx + 2 * Layers[1].pad - Layers[1].sx, Layers[1].stride) + 1
        /\ Layers[1].outSy
              = Floor(Layers[1].inSy + 2 * Layers[1].pad - Layers[1].sy, Layers[1].stride) + 1
        /\ Len(Layers[1].switchx) = Layers[1].outSx * Layers[1].outSy * Layers[1].inDepth
        /\ Len(Layers[1].switchy) = Layers[1].outSx * Layers[1].outSy * Layers[1].inDepth

\* the layer under test, its input and its output
L1 == Layers[1]
In1 == vols[L1.inAct]
Out1 == vols[L1.outAct]

\* the output cells of a pooling layer and the place of each in the switch tables
PoolCellSet == (0..(L1.outSx - 1)) \X (0..(L1.outSy - 1)) \X (0..(L1.inDepth - 1))
CellNo(c) == (c[3] * L1.outSx + c[1]) * L1.outSy + c[2] + 1

\* the in-bounds positions of the receptive field of cell c, as <<x, y>>
Field(c) ==
    {q \in (0..(In1.Sx - 1)) \X (0..(In1.Sy - 1)) :
        /\ q[1] >= c[1] * L1.stride - L1.pad /\ q[1] <= c[1] * L1.stride - L1.pad + L1.sx - 1
        /\ q[2] >= c[2] * L1.stride - L1.pad /\ q[2] <= c[2] * L1.stride - L1.pad + L1.sy - 1}

Recorded(c) == <<L1.switchx[CellNo(c)], L1.switchy[CellNo(c)]>>

RECURSIVE GradSum(_)
GradSum(cs) ==
    IF cs = {} THEN Zero
    ELSE LET c == CHOOSE c \in cs : TRUE
         IN  FAdd(Out1.Dw[index(Out1, c[1], c[2], c[3]) + 1], GradSum(cs \ {c}))

PoolRan(op) == made = "built" /\ L1.type = LayerPool /\ last.op = op

\* C13: after PoolLayer.Forward every output cell has recorded an in-bounds
\* position of its receptive field, and after Backward the input gradient at
\* each position is the sum of the output gradients of the cells that recorded
\* it (0 where none did)
C13_PoolRouting ==
    /\ PoolRan("LayerForward") => \A c \in PoolCellSet : Recorded(c) \in Field(c)
    /\ PoolRan("LayerBackward") =>
          /\ ~last.panic
          /\ \A c \in PoolCellSet : Recorded(c) \in Field(c)
          /\ \A q \in (0..(In1.Sx - 1)) \X (0..(In1.Sy - 1)) : \A d \in 0..(L1.inDepth - 1) :
                In1.Dw[index(In1, q[1], q[2], d) + 1]
                    = GradSum({c \in PoolCellSet : c[3] = d /\ Recorded(c) = q})

RECURSIVE MaxOf(_)
MaxOf(S) ==
    LET a == CHOOSE a \in S : TRUE
    IN  IF S = {a} THEN a
        ELSE LET m == MaxOf(S \ {a}) IN IF FLt(m, a) THEN a ELSE m

ValueAt(q, d) == In1.W[index(In1, q[1], q[2], d) + 1]

\* q comes before r in the scan order x outer, y inner
ScannedBefore(q, r) == q[1] < r[1] \/ (q[1] = r[1] /\ q[2] < r[2])

\* C14: PoolLayer.Forward sets each output cell to the maximum of its channel
\* over the in-bounds positions of its receptive field, for every input value,
\* and records the first position attaining it in the scan order
C14_PoolMax ==
    PoolRan("LayerForward") =>
        \A c \in PoolCellSet :
            /\ Field(c) # {}
            /\ Out1.W[index(Out1, c[1], c[2], c[3]) + 1]
                  = MaxOf({ValueAt(q, c[3]) : q \in Field(c)})
            /\ Recorded(c) \in Field(c)
            /\ ValueAt(Recorded(c), c[3]) = Out1.W[index(Out1, c[1], c[2], c[3]) + 1]
            /\ \A q \in Field(c) :
                  ValueAt(q, c[3]) = ValueAt(Recorded(c), c[3]) =>
                      ~ScannedBefore(q, Recorded(c))

MaxoutRan(op) == made = "built" /\ L1.type = LayerMaxout /\ last.op = op

\* the positions of a maxout layer's input and its blocks of channels
Positions == (0..(In1.Sx - 1)) \X (0..(In1.Sy - 1))
Blocks == 0..(L1.outDepth - 1)
Members(i) == (i * L1.groupSize)..(i * L1.groupSize + L1.groupSize - 1)
Winner(q, i) == L1.switches[(q[1] * In1.Sy + q[2]) * L1.outDepth + i + 1]

MaxoutForwardOK ==
    \A q \in Positions : \A i \in Blocks :
        /\ Winner(q, i) \in Members(i)
        /\ Out1.W[index(Out1, q[1], q[2], i) + 1] = ValueAt(q, Winner(q, i))
        /\ \A m \in Members(i) :
              /\ ~FLt(ValueAt(q, Winner(q, i)), ValueAt(q, m))
              /\ m < Winner(q, i) => FLt(ValueAt(q, m), ValueAt(q, Winner(q, i)))

\* C15: MaxoutLayer.Forward outputs each block's maximum and records the first
\* member attaining it; Backward completes and leaves the block's output
\* gradient at the recorded winner and 0 at every other member, for 1x1 and for
\* spatial inputs
C15_MaxoutRouting ==
    /\ MaxoutRan("LayerForward") => MaxoutForwardOK
    /\ MaxoutRan("LayerBackward") =>
          /\ ~last.panic
          /\ \A q \in Positions : \A ch \in 0..(In1.Depth - 1) :
                In1.Dw[index(In1, q[1], q[2], ch) + 1]
                    = IF (ch \div L1.groupSize) \in Blocks
                         /\ Winner(q, ch \div L1.groupSize) = ch
                      THEN Out1.Dw[index(Out1, q[1], q[2], ch \div L1.groupSize) + 1]
                      ELSE Zero

\* C16: Forward of every layer variant stores its input and returns a Vol that is
\* not its input
C16_ForwardAllocates ==
    (made = "built" /\ last.op = "LayerForward") =>
        /\ L1.inAct = last.in
        /\ last.out # last.in

----------------------------------------------------------------------------
(* a claim about the optimizer methods, checked under SpecTrain *)

NamedMethods ==
    {MethodSGD, MethodAdam, MethodADAGrad, MethodADADelta, MethodWindowGrad, MethodNetsterov}

\* the accumulators a MethodSGD trainer holds where one with an unnamed method
\* and the same history holds gs: the same with momentum, nil entries without
SgdView(gs) ==
    IF FLt(Zero, opts.Momentum) THEN gs ELSE [i \in 1..Len(gs) |-> <<>>]

SameAsSGD(a, b) ==
    /\ a.panic = b.panic
    /\ a.msg = b.msg
    /\ a.updated = b.updated
    /\ a.k = b.k
    /\ a.layers = b.layers
    /\ a.result = b.result
    /\ SgdView(a.gsum) = b.gsum
    /\ SgdView(a.xsum) = b.xsum

\* C18: Train with a Method outside the six named constants does not fail, and
\* does what Train with MethodSGD does on the same options, state and inputs:
\* the SGD rule, leaving the same parameters
C18_UnknownMethodIsSGD ==
    (made = "built" /\ opts.Method \notin NamedMethods) =>
        \A s \in Samples(Layers) :
            /\ ~Trainer_Train(opts, k, gsum, xsum, Layers, rng, s[1], s[2]).panic
            /\ SameAsSGD(Trainer_Train(opts, k, gsum, xsum, Layers, rng, s[1], s[2]),
                         Trainer_Train([opts EXCEPT !.Method = MethodSGD], k, SgdView(gsum),
                                       SgdView(xsum), Layers, rng, s[1], s[2]))

----------------------------------------------------------------------------
(* a claim about serialization, checked under SpecNet *)

\* layer i of the network Unmarshal returned, and the record it was written as
RestoredLayer(i) == last.net[i]
RecordOf(i) == last.data.layers[i]

\* the state Forward and Backward index that no record carries, sized for the shape
\* of the layer l: pool switch tables, maxout switches, dropout mask and random source
TransientStateMade(l) ==
    /\ l.type = LayerPool =>
          /\ Len(l.switchx) = l.outSx * l.outSy * l.inDepth
          /\ Len(l.switchy) = l.outSx * l.outSy * l.inDepth
    /\ l.type = LayerMaxout => Len(l.switches) = l.outSx * l.outSy * l.outDepth
    /\ l.type = LayerDropout =>
          /\ Len(l.dropped) = l.outSx * l.outSy * l.outDepth
          /\ l.rand

\* C17: unmarshalling a network from its serialized form gives, for each record,
\* a layer of the record's type with the record's shape and hyperparameters (it
\* marshals to that record again), with transient state of the size the original
\* layer has
C17_UnmarshalRestores ==
    (made = "built" /\ last.op = "Unmarshal") =>
        /\ last.msg = ""
        /\ Len(last.net) = Len(Layers)
        /\ \A i \in 1..Len(Layers) :
              /\ RestoredLayer(i).type = Layers[i].type
              /\ Layer_MarshalJSON(RestoredLayer(i)) = RecordOf(i)
              /\ TransientStateMade(RestoredLayer(i))
              /\ Len(RestoredLayer(i).switchx) = Len(Layers[i].switchx)
              /\ Len(RestoredLayer(i).switches) = Len(Layers[i].switches)
              /\ Len(RestoredLayer(i).dropped) = Len(Layers[i].dropped)

----------------------------------------------------------------------------
(* claims about the regression, fully connected and dropout layers, checked
   under SpecLayer *)

LayerIs(t) == made = "built" /\ L1.type = t
LayerRan(t, op) == LayerIs(t) /\ last.op = op

\* C21: RegressionLayer.Forward returns its input values unchanged, and
\* BackwardLoss with (Dim = i, Val = t) leaves x[i] - t in the input gradient at
\* index i and 0 at every other index, whatever the gradient held before, and
\* returns (x[i] - t)^2 / 2
C21_RegressionLoss ==
    /\ LayerIs(LayerRegression) =>
          \A x \in LayerInputs(defs[1]) : \A t \in BOOLEAN :
              Layer_Forward(L1, <<x>>, 1, t, rng).vols[
                  Layer_Forward(L1, <<x>>, 1, t, rng).out].W = x.W
    /\ LayerRan(LayerRegression, "LayerBackwardLoss") =>
          /\ ~last.panic
          /\ \A i \in 1..Len(In1.W) :
                In1.Dw[i] = IF i = last.y.Dim + 1 THEN FSub(In1.W[i], last.y.Val) ELSE Zero
          /\ last.ret = FDiv(FMul(FSub(In1.W[last.y.Dim + 1], last.y.Val),
                                  FSub(In1.W[last.y.Dim + 1], last.y.Val)), Int2F(2))

\* BackwardLoss has overwritten a gradient that was not 0 away from the label's
\* index, and has left a gradient that is not 0 at it
C21_Witness ==
    /\ LayerRan(LayerRegression, "LayerBackwardLoss")
    /\ ~last.panic
    /\ \E i \in 1..Len(last.prev) : i # last.y.Dim + 1 /\ last.prev[i] # Zero
    /\ In1.Dw[last.y.Dim + 1] # Zero
    /\ last.ret # Zero

\* sum over the output units i..1 of filter_i[d] * g[i]
RECURSIVE FcInputGrad(_, _, _, _)
FcInputGrad(l, g, d, i) ==
    IF i = 0 THEN Zero
    ELSE FAdd(FMul(l.filters[i].W[d], g[i]), FcInputGrad(l, g, d, i - 1))

\* the layer's Backward run in the current state with output gradient g
FcBackward(g) == Layer_Backward(L1, [vols EXCEPT ![L1.outAct].Dw = g])

\* b is what the claim says Backward with output gradient g leaves, from a layer l
\* whose input is in
FcBackwardOK(l, in, g, b) ==
    /\ ~b.panic
    /\ \A d \in 1..Len(in.W) :
          b.vols[l.inAct].Dw[d] = FcInputGrad(l, g, d, l.outDepth)
    /\ \A i \in 1..l.outDepth :
          /\ \A d \in 1..Len(in.W) :
                b.layer.filters[i].Dw[d] = FAdd(l.filters[i].Dw[d], FMul(in.W[d], g[i]))
          /\ b.layer.biases.Dw[i] = FAdd(l.biases.Dw[i], g[i])

\* C22: FullyConnLayer.Backward replaces the input gradient by the sum over the
\* output units of filter_i[d] * out_grad[i], whatever it held before, and adds
\* input[d] * out_grad[i] to filter i's gradient and out_grad[i] to bias gradient
\* i; a second call with the same output gradient leaves the input gradient the
\* same and adds the same amounts again
C22_FullyConnBackward ==
    (LayerIs(LayerFC) /\ L1.outAct # 0) =>
        \A g \in OutGrads(L1.outDepth) :
            /\ FcBackwardOK(L1, In1, g, FcBackward(g))
            /\ FcBackwardOK(FcBackward(g).layer, In1, g,
                            Layer_Backward(FcBackward(g).layer, FcBackward(g).vols))
            /\ Layer_Backward(FcBackward(g).layer, FcBackward(g).vols).vols[L1.inAct].Dw
                  = FcBackward(g).vols[L1.inAct].Dw

\* Backward has run on a layer whose input gradient and parameter gradients were
\* not 0 before, with another output gradient than the call before it
C22_Witness ==
    /\ LayerRan(LayerFC, "LayerBackward")
    /\ ~last.panic
    /\ \E d \in 1..Len(In1.Dw) : In1.Dw[d] # Zero
    /\ \E i \in 1..L1.outDepth : \E d \in 1..Len(In1.W) :
          /\ L1.filters[i].Dw[d] # Zero
          /\ L1.filters[i].Dw[d] # FMul(In1.W[d], last.prev[i])
          /\ L1.filters[i].Dw[d] # FMul(Int2F(2), FMul(In1.W[d], last.prev[i]))

\* the non-training Forward of the layer on x in the current state
DropTest(x) == Layer_Forward(L1, <<x>>, 1, FALSE, rng)

\* C23: DropoutLayer.Forward with isTraining = false draws no random number and
\* returns every input value multiplied by the configured drop probability; a
\* second such call on the same input returns the same values, and the random
\* stream, the cached drop decisions and the input tensor are left as they were
C23_DropoutTestMode ==
    LayerIs(LayerDropout) =>
        \A x \in LayerInputs(defs[1]) :
            /\ DropTest(x).rng = rng
            /\ DropTest(x).layer.dropped = L1.dropped
            /\ DropTest(x).vols[1] = x
            /\ DropTest(x).out # 1
            /\ Len(DropTest(x).vols[DropTest(x).out].W) = Len(x.W)
            /\ \A i \in 1..Len(x.W) :
                  DropTest(x).vols[DropTest(x).out].W[i] = FMul(x.W[i], defs[1].DropProb)
            /\ Layer_Forward(DropTest(x).layer, <<x>>, 1, FALSE, DropTest(x).rng).vols[2].W
                  = DropTest(x).vols[DropTest(x).out].W

\* a non-training Forward has run on a layer that holds drop decisions of an
\* earlier training Forward, some dropped and some kept
C23_Witness ==
    /\ LayerRan(LayerDropout, "LayerForward")
    /\ \E i \in 1..Len(L1.dropped) : L1.dropped[i]
    /\ \E i \in 1..Len(L1.dropped) : ~L1.dropped[i]
    /\ \E i \in 1..Len(In1.W) : In1.W[i] # Zero
    /\ \A i \in 1..Len(In1.W) : Out1.W[i] = FMul(In1.W[i], L1.dropProb)
    /\ \A i \in 1..Len(In1.W) : In1.W[i] # Zero => Out1.W[i] \notin {Zero, In1.W[i]}

\* the training-mode Forward of the layer on x in the current state
DropTrain(x) == Layer_Forward(L1, <<x>>, 1, TRUE, rng)

\* C24: training-mode DropoutLayer.Forward outputs 0 at the positions it drops and
\* the input value at the ones it keeps, its decisions staying cached through a
\* later non-training Forward; a Backward that follows leaves 0 in the input
\* gradient at exactly the cached dropped positions and the output gradient at
\* the others
C24_DropoutTraining ==
    /\ LayerIs(LayerDropout) =>
          \A x \in LayerInputs(defs[1]) :
              /\ Len(DropTrain(x).layer.dropped) = Len(x.W)
              /\ \A i \in 1..Len(x.W) :
                    DropTrain(x).vols[DropTrain(x).out].W[i]
                        = IF DropTrain(x).layer.dropped[i] THEN Zero ELSE x.W[i]
              /\ Layer_Forward(DropTrain(x).layer, <<x>>, 1, FALSE, DropTrain(x).rng)
                      .layer.dropped = DropTrain(x).layer.dropped
    /\ LayerRan(LayerDropout, "LayerBackward") =>
          /\ ~last.panic
          /\ \A i \in 1..Len(In1.W) :
                In1.Dw[i] = IF L1.dropped[i] THEN Zero ELSE last.prev[i]

\* Backward has run after a training-mode Forward that dropped some positions and
\* kept others, some of the kept ones holding a value that is not 0
C24_Witness ==
    /\ LayerRan(LayerDropout, "LayerBackward")
    /\ \E i \in 1..Len(L1.dropped) : L1.dropped[i] /\ In1.Dw[i] = Zero /\ last.prev[i] # Zero
    /\ \E i \in 1..Len(L1.dropped) : ~L1.dropped[i] /\ In1.Dw[i] # Zero
    /\ \A i \in 1..Len(In1.W) : Out1.W[i] = IF L1.dropped[i] THEN Zero ELSE In1.W[i]
    /\ \E i \in 1..Len(In1.W) : ~L1.dropped[i] /\ Out1.W[i] # Zero

----------------------------------------------------------------------------
(* a claim about the local response normalization layer, checked under SpecLayer *)

\* the channels max(0, i - n/2) .. min(depth - 1, i + n/2)
LrnWindow(i, n, depth) ==
    {j \in 0..(depth - 1) : j >= i - Floor(n, 2) /\ j <= i + Floor(n, 2)}

\* the sum of the squares of v at (x, y) over the channels js
RECURSIVE SumSqOver(_, _, _, _)
SumSqOver(v, x, y, js) ==
    IF js = {} THEN Zero
    ELSE LET j == CHOOSE j \in js : TRUE
         IN  FAdd(FMul(v.W[index(v, x, y, j) + 1], v.W[index(v, x, y, j) + 1]),
                  SumSqOver(v, x, y, js \ {j}))

LrnTried == made # "new" /\ defs[1].Type = LayerLRN

\* C25: constructing a local response normalization layer with an even n panics;
\* with an odd n >= 1 it succeeds with the input's shape as output shape, and
\* Forward normalizes channel i by the squares of the channels
\* max(0, i - n/2) .. min(depth - 1, i + n/2)
C25_LrnWindow ==
    /\ (LrnTried /\ defs[1].N % 2 = 0) =>
          made = "panic" /\ panicMsg = "convnet: n should be odd for LRN layer"
    /\ (LrnTried /\ defs[1].N % 2 = 1 /\ defs[1].N >= 1) =>
          /\ made = "built"
          /\ L1.outSx = defs[1].InSx /\ L1.outSy = defs[1].InSy
          /\ L1.outDepth = defs[1].InDepth
    /\ LayerRan(LayerLRN, "LayerForward") =>
          \A x \in 0..(In1.Sx - 1) : \A y \in 0..(In1.Sy - 1) : \A i \in 0..(In1.Depth - 1) :
              /\ L1.s.W[index(In1, x, y, i) + 1]
                    = FAdd(FMul(SumSqOver(In1, x, y, LrnWindow(i, L1.n, In1.Depth)),
                                FDiv(L1.alpha, Int2F(L1.n))), L1.k)
              /\ Out1.W[index(In1, x, y, i) + 1]
                    = FDiv(In1.W[index(In1, x, y, i) + 1],
                           Pow(L1.s.W[index(In1, x, y, i) + 1], L1.beta))

\* Forward has run with a window of 3 channels on an input whose values differ:
\* the window is cut at the first channel, cut at the last, and whole in between
C25_Witness ==
    /\ LayerRan(LayerLRN, "LayerForward")
    /\ L1.n = 3
    /\ In1.Depth >= 4
    /\ In1.W[1] # In1.W[2]
    /\ Cardinality(LrnWindow(0, L1.n, In1.Depth)) = 2
    /\ Cardinality(LrnWindow(1, L1.n, In1.Depth)) = 3
    /\ Cardinality(LrnWindow(In1.Depth - 1, L1.n, In1.Depth)) = 2
    /\ L1.s.W[1] # L1.s.W[2]

----------------------------------------------------------------------------
(* a claim about the output of a Softmax network, checked under SpecNet *)

LastLayer == Layers[Len(Layers)]

\* a Forward has run on a network whose last layer is a Softmax layer
SoftmaxForwarded ==
    /\ made = "built" /\ last.op = "Forward"
    /\ LastLayer.type = LayerSoftmax

\* the probabilities Forward returned and the activations they were computed from
Probs == vols[last.out].W
Scores == vols[Layers[Len(Layers) - 1].outAct].W

\* the largest difference between two activations
Spread == MaxOf({FSub(Scores[i], Scores[j]) : i, j \in 1..Len(Scores)})

\* |sum of the probabilities - 1| is at most tol
SumsToOne(tol) == ~FLt(tol, FAbs(FSub(SeqSum(Probs), One)))

\* the spread of activations up to which no class's exponential is lost to rounding
MaxSpread == 8

----------------------------------------------------------------------------
(* the gradient check, under SpecTrain *)

\* the step of the finite difference
Delta == <<1, Precision>>

\* x with d added to element i
Perturbed(x, i, d) == [x EXCEPT !.W[i] = FAdd(@, d)]

\* (CostLoss(x + d*e_i, y) - CostLoss(x - d*e_i, y)) / (2d) on the network as the
\* Train call left it
GradNumeric(i) ==
    FDiv(FSub(Net_CostLoss(Layers, Perturbed(vols[1], i, Delta), last.y, rng).loss,
              Net_CostLoss(Layers, Perturbed(vols[1], i, FNeg(Delta)), last.y, rng).loss),
         FMul(Int2F(2), Delta))

\* |a - n| / |a + n| < 1/100
RelErrorSmall(a, n) == FLt(FMul(Int2F(100), FAbs(FSub(a, n))), FAbs(FAdd(a, n)))

\* C27: after Train(x, y) on the network of the gradient check, Train and CostLoss
\* having returned, every element of x's gradient buffer agrees with the central
\* finite difference of the cost loss within 1% relative error
C27_GradientCheck ==
    (made = "built" /\ defs = GradientNet /\ last.op = "Train") =>
        /\ ~last.panic
        /\ \A i \in 1..Len(vols[1].W) :
              /\ ~Net_CostLoss(Layers, Perturbed(vols[1], i, Delta), last.y, rng).panic
              /\ ~Net_CostLoss(Layers, Perturbed(vols[1], i, FNeg(Delta)), last.y, rng).panic
              /\ RelErrorSmall(vols[1].Dw[i], GradNumeric(i))

----------------------------------------------------------------------------
(* the losses a Train call returns, under SpecTrain *)

\* the sum over the filters of layer li from filter j on of what each element
\* adds to a decay loss, f(decay, p) being one element's share; the layer's bias
\* buffer has both multipliers 0 and adds nothing
RECURSIVE FilterDecay(_, _, _, _, _, _)
FilterDecay(layers, li, j, decay, f(_, _), acc) ==
    IF j > Len(layers[li].filters) THEN acc
    ELSE FilterDecay(layers, li, j + 1, decay, f,
             FAdd(acc, SeqSum(Tuple([d \in 1..Len(layers[li].filters[j].W) |->
                                        f(decay, layers[li].filters[j].W[d])]))))

\* the L1 decay loss of parameter values held in layers, from layer li on
RECURSIVE L1Sum(_, _, _)
L1Sum(layers, li, acc) ==
    IF li > Len(layers) THEN acc
    ELSE L1Sum(layers, li + 1,
               FilterDecay(layers, li, 1, FMul(opts.L1Decay, layers[li].l1DecayMul),
                           LAMBDA c, p : FMul(c, FAbs(p)), acc))

\* the L2 decay loss of parameter values held in layers, from layer li on
RECURSIVE L2Sum(_, _, _)
L2Sum(layers, li, acc) ==
    IF li > Len(layers) THEN acc
    ELSE L2Sum(layers, li + 1,
               FilterDecay(layers, li, 1, FMul(opts.L2Decay, layers[li].l2DecayMul),
                           LAMBDA c, p : FDiv(FMul(FMul(c, p), p), Int2F(2)), acc))

\* a Train call has just returned
TrainReturned == last.op = "Train" /\ ~last.panic

\* C28: a Train call that returns gives Loss = CostLoss + L1DecayLoss +
\* L2DecayLoss, CostLoss being what Net.Backward returned; without an update both
\* decay losses are 0, with an update they are the sums of l1Decay*|p| and
\* l2Decay*p*p/2 over the parameter values held before the call, biases adding 0
C28_TrainLoss ==
    [][(calls' = calls + 1 /\ TrainReturned') =>
          /\ last'.result.Loss = FAdd(FAdd(last'.result.CostLoss, last'.result.L1DecayLoss),
                                      last'.result.L2DecayLoss)
          /\ last'.result.CostLoss = last'.ret
          /\ ~last'.updated =>
                last'.result.L1DecayLoss = Zero /\ last'.result.L2DecayLoss = Zero
          /\ last'.updated =>
                /\ last'.result.L1DecayLoss = L1Sum(Layers, 1, Zero)
                /\ last'.result.L2DecayLoss = L2Sum(Layers, 1, Zero)]_vars

\* a Train call that updated returned nonzero cost, L1 and L2 decay losses, the
\* update having changed the parameters the L2 loss was taken on
C28_Witness ==
    /\ TrainReturned /\ last.updated
    /\ last.result.CostLoss # Zero
    /\ last.result.L1DecayLoss # Zero
    /\ last.result.L2DecayLoss # Zero
    /\ last.result.L2DecayLoss # L2Sum(Layers, 1, Zero)

----------------------------------------------------------------------------
(* what Net.CostLoss leaves alone, under SpecTrain *)

\* the values of the parameters, per layer: its filters' and its biases'
ParamValues(layers) ==
    Tuple([i \in 1..Len(layers) |->
        [f |-> Tuple([j \in 1..Len(layers[i].filters) |-> layers[i].filters[j].W]),
         b |-> layers[i].biases.W]])

\* the Vol the loss layer reads its input from after a forward pass f
LossInput(f) == f.layers[Len(f.layers)].inAct

\* the Vols a call left are those of the forward pass f, but for the gradient
\* of the loss layer's input
OnlyLossGradient(vs, f) ==
    /\ Len(vs) = Len(f.vols)
    /\ \A i \in 1..Len(vs) :
          IF i = LossInput(f) THEN vs[i].W = f.vols[i].W ELSE vs[i] = f.vols[i]

\* C29: a call of Net.CostLoss(x, y) leaves what a non-training forward pass
\* leaves, but for the gradient of the loss layer's input; the parameters, their
\* gradient buffers, the trainer's counter and accumulators, the random stream and
\* the values of x are as before, and calling it again with the same x and y
\* ends the same way with the same loss
C29_CostLossFrame ==
    [][(ops' = ops + 1 /\ last'.op = "CostLoss") =>
          /\ ParamValues(Layers') = ParamValues(Layers)
          /\ ParamGrads(Layers') = ParamGrads(Layers)
          /\ k' = k /\ gsum' = gsum /\ xsum' = xsum /\ rng' = rng
          /\ vols'[last'.in].W = last'.x.W
          /\ OnlyLossGradient(vols', Net_Forward(Layers, last'.x, FALSE, rng))
          /\ LET again == Net_CostLoss(Layers', last'.x, last'.y, rng')
             IN  again.panic = last'.panic /\ again.loss = last'.ret]_vars

\* CostLoss has returned a nonzero loss on a network with a Dropout layer whose
\* trainer has counted calls, allocated accumulators and left gradients to apply
C29_Witness ==
    /\ last.op = "CostLoss" /\ ~last.panic
    /\ last.ret # Zero
    /\ \E i \in 1..Len(Layers) : Layers[i].type = LayerDropout
    /\ k > 0
    /\ \E i \in 1..Len(gsum) : gsum[i] # <<>>
    /\ ParamGrads(Layers) # ZeroGrads(Layers)

----------------------------------------------------------------------------
(* cnnutil.Window: a ring of the last size values and their average *)

\* NewWindow(size, minsize)
NewWindow(size, minsize) == [v |-> <<>>, index |-> 0, size |-> size, minsize |-> minsize]

windowWrap_Late(idx, size) == IF idx > size THEN 0 ELSE idx

\* if w.index >= w.size { w.index = 0 }
windowWrap(idx, size) == IF idx >= size THEN 0 ELSE idx

\* (w *Window) Add(x); w.v[w.index] is element index + 1 of the sequence. A write
\* past the end of w.v panics and leaves the Window as it was
Window_Add(wd, x) ==
    IF Len(wd.v) < wd.size THEN [wd EXCEPT !.v = Append(@, x)]
    ELSE IF wd.index >= Len(wd.v) THEN wd
    ELSE [wd EXCEPT !.v[wd.index + 1] = x, !.index = windowWrap(wd.index + 1, wd.size)]

\* 0.0 / 0: not a number
NaN == <<0, 0>>

\* (w *Window) Average()
Window_Average(wd) ==
    IF Len(wd.v) < wd.minsize THEN Int2F(-1)
    ELSE IF Len(wd.v) = 0 THEN NaN
    ELSE FDiv(SeqSum(wd.v), Int2F(Len(wd.v)))

\* (w *Window) Reset()
Window_Reset(wd) == [wd EXCEPT !.v = <<>>, !.index = 0]

MaxSize == 3
MaxAdds == 5

\* the values added: rewards and losses
WindowValues == {Int2F(1), Int2F(2), Int2F(-3)}

InitWindow ==
    \E size \in 1..MaxSize : \E minsize \in 0..(MaxSize + 1) :
        /\ window = NewWindow(size, minsize)
        /\ added = <<>>
        /\ InitFields(<<>>, 0, DefaultTrainerOptions)

\* w.Add(x)
WindowAddAct ==
    /\ ops < MaxAdds
    /\ \E x \in WindowValues :
          /\ window' = Window_Add(window, x)
          /\ added' = Append(added, x)
          /\ last' = [NoOp EXCEPT !.op = "Add", !.x = x]
    /\ ops' = ops + 1
    /\ UNCHANGED <<defs, made, panicMsg, desugared, Layers, rng, vols, opts, k, gsum, xsum,
                   calls, updates, rawsum>>

\* w.Average()
WindowAverageAct ==
    /\ last' = [NoOp EXCEPT !.op = "Average", !.ret = Window_Average(window)]
    /\ UNCHANGED <<window, added, defs, made, panicMsg, desugared, Layers, rng, vols, opts,
                   k, gsum, xsum, calls, updates, ops, rawsum>>

\* w.Reset()
WindowResetAct ==
    /\ ops < MaxAdds
    /\ window' = Window_Reset(window)
    /\ added' = <<>>
    /\ last' = [NoOp EXCEPT !.op = "Reset"]
    /\ ops' = ops + 1
    /\ UNCHANGED <<defs, made, panicMsg, desugared, Layers, rng, vols, opts, k, gsum, xsum,
                   calls, updates, rawsum>>

NextWindow == WindowAddAct \/ WindowAverageAct \/ WindowResetAct

SpecWindow == InitWindow /\ [][NextWindow]_vars

\* the n most recent of the values added, oldest first
Recent(n) == SubSeq(added, Len(added) - n + 1, Len(added))

\* how many of them the Window should hold
Held == IF Len(added) < window.size THEN Len(added) ELSE window.size

\* a and b hold the same values the same number of times
SameValues(a, b) ==
    /\ Len(a) = Len(b)
    /\ \A x \in WindowValues :
          Cardinality({i \in 1..Len(a) : a[i] = x}) = Cardinality({i \in 1..Len(b) : b[i] = x})

\* C30: after any Add and Reset calls on a Window of size s >= 1 the Window holds
\* at most s values, they are the most recent min(k, s) of the k values added
\* since the last Reset, and the write index is in 0..s-1; Average returns -1
\* while fewer than minsize values are held and their mean otherwise (sum / count,
\* not a number when nothing is held)
C30_Window ==
    /\ Len(window.v) <= window.size
    /\ SameValues(window.v, Recent(Held))
    /\ window.index \in 0..(window.size - 1)
    /\ last.op = "Average" =>
          last.ret = IF Held < window.minsize THEN Int2F(-1)
                     ELSE IF Held = 0 THEN NaN
                     ELSE FDiv(SeqSum(Recent(Held)), Int2F(Held))

\* a Window of size 2 or more that has wrapped around, its write index past the
\* first slot, holding different values whose mean Average has returned
C30_Witness ==
    /\ window.size >= 2
    /\ Len(added) > window.size
    /\ window.index > 0
    /\ window.v # Recent(Held)
    /\ \E i, j \in 1..Len(window.v) : window.v[i] # window.v[j]
    /\ last.op = "Average"
    /\ last.ret # Int2F(-1)

====
